---- MODULE Spec2Model ----
(***************************************************************************)
(* Model of the tortuise GPU orchestrator (src/render/metal/*.rs), of the  *)
(* frame loop that drives it (src/render/frame.rs) and of the key sort     *)
(* that the GPU stage B performs.                                          *)
(*                                                                         *)
(* The host thread is sequential; the only concurrent party is the GPU,    *)
(* which the host meets at the two waits of commit_and_wait_with_timeout.  *)
(* A render call is therefore split at those two waits: pc says where the  *)
(* host is parked, and the command buffer's final status and the values    *)
(* the GPU left in shared memory are inputs of the step that ends a wait.  *)
(***************************************************************************)
EXTENDS Integers, Sequences, FiniteSets, TLC

VARIABLES
    caller,                  \* who calls MetalBackend::render: the frame loop, or a direct API caller that keeps the back-end
    splat_count,             \* app_state.splats.len(), fixed for the session
    backend,                 \* AppState.backend
    metal_backend,           \* AppState.metal_backend: "Some" or "None"
    last_gpu_error,          \* AppState.last_gpu_error: "None" or the error kind recorded
    gpu_fallback_active,     \* AppState.gpu_fallback_active
    gpu_disabled,            \* MetalBackend.gpu_disabled
    sort_capacity,           \* MetalBackend.sort_capacity
    previous_total_overlaps, \* MetalBackend.previous_total_overlaps
    frames_below_threshold,  \* MetalBackend.frames_below_threshold
    pc,                      \* where the host is inside render: "idle", "wait_stage_a", "wait_stage_b"
    attempt,                 \* local `attempt` of render
    total_overlaps,          \* local `total_overlaps` of run_single_render_attempt (read after stage A)
    overflow_flag,           \* the overflow flag most recently read from overflow_flag_buffer
    stage_status,            \* final status of the command buffer of the wait that ended last
    render_result,           \* what the last render call returned: [kind, stage]
    submits,                 \* command buffers committed by the current/last render call
    reads,                   \* read_shared_u32 calls made by the current/last render call
    in_flight,               \* a committed command buffer has not finished on the GPU yet
    polls,                   \* commit_and_wait_with_timeout: polls of the current wait that slept, each a share of the timeout
    stage_b,                 \* what the last stage B was encoded with: [dispatch_overlaps, sort]
    rasterized_by,           \* which rasterizer filled the pixel buffer in the last frame
    presented,               \* what the pixel buffer held when the last frame was presented
    monotone,                \* history: every total_overlaps reported so far was >= the one before
    max_observed,            \* history: largest total_overlaps reported so far
    static_total,            \* history: the total_overlaps of every attempt so far; -1 before the first, -2 once two differed
    host_raced,              \* history: the host wrote staging data, re-allocated or read results while a command buffer was in flight
    scene,                   \* stage B input: per splat id, the tiles its box spans and its quantized depth
    sort_pc,                 \* position inside stage B: "emit", "sort", "rasterize", "rendered"
    sort_keys_a,             \* MetalBackend.sort_keys_a
    sort_values_a,           \* MetalBackend.sort_values_a
    sort_keys_b,             \* MetalBackend.sort_keys_b
    sort_values_b,           \* MetalBackend.sort_values_b
    keys_in_a,               \* local `keys_in_a` of run_single_render_attempt
    pass,                    \* number of radix passes encoded so far
    emitted,                 \* history: the (key, value) pairs as emit_tile_keys wrote them
    framebuffer,             \* MetalBackend.framebuffer: one pixel per tile
    reference,               \* test_render_determinism: the framebuffers kept by the host: empty, or the first render
    width,                   \* rasterize_splats: parameter `width`
    height,                  \* rasterize_splats: parameter `height`
    num_threads,             \* rayon::current_num_threads()
    projected_splats,        \* rasterize_splats: parameter `projected_splats`
    render_framebuffer,      \* RenderState.framebuffer (one colour channel)
    alpha_buffer,            \* RenderState.alpha_buffer, in units of 1/ALPHA_ONE
    depth_buffer,            \* RenderState.depth_buffer
    band_next,               \* per band: position of the worker in its bin
    band_writers,            \* history: per pixel, the bands that wrote it
    band_order,              \* history: the bands in the order their steps ran
    call,                    \* a call of a function of the CPU path that is about to run: [op, ...]
    returned,                \* what that call returned: [kind, ...], kind "pending" before it ran
    screen_width,            \* render: parameter `screen_width` of the last call
    screen_height,           \* render: parameter `screen_height` of the last call
    max_splats,              \* MetalBackend.max_splats
    splats_uploaded,         \* MetalBackend.splats_uploaded
    framebuffer_capacity_pixels, \* MetalBackend.framebuffer_capacity_pixels
    last_render_width,       \* MetalBackend.last_render_width
    last_render_height,      \* MetalBackend.last_render_height
    frame_id,                \* history: number of render calls made
    expected_image,          \* history: the pixels the last successful render had to produce
    input_queue,             \* the mpsc channel of spawn_input_thread: messages sent, not yet received
    tx_alive,                \* the reader thread runs and holds the Sender
    quit_requested,          \* AppState.input_state.quit_requested
    held,                    \* AppState.input_state.held
    camera_mode,             \* AppState.camera_mode
    loop_pc,                 \* where main is: "drain", "frame", "exited_ok", "exited_err", "done"
    drain_returned,          \* what the last finished drain_input_events returned
    frames_rendered,         \* number of render_frame calls made by run_app_loop
    raw_mode,                \* the terminal is in raw mode / alternate screen
    run_result,              \* what main returns: "running", "Ok", "Err"
    cleanup_result,          \* what cleanup_terminal returned: "none", "Ok", "Err"
    sent,                    \* history: every message the reader thread sent
    received                 \* history: every message drain_input_events took from the channel

backend_vars == <<gpu_disabled, sort_capacity, previous_total_overlaps, frames_below_threshold>>
app_vars     == <<backend, metal_backend, last_gpu_error, gpu_fallback_active>>
frame_vars   == <<rasterized_by, presented>>
call_vars    == <<pc, attempt, total_overlaps, overflow_flag, stage_status, render_result, submits, reads,
                 in_flight, polls, stage_b>>
hist_vars    == <<monotone, max_observed, static_total, host_raced>>
sort_vars    == <<scene, sort_pc, sort_keys_a, sort_values_a, sort_keys_b, sort_values_b,
                 keys_in_a, pass, emitted, framebuffer, reference>>
raster_vars  == <<width, height, num_threads, projected_splats, render_framebuffer, alpha_buffer,
                 depth_buffer, band_next, band_writers, band_order>>
pure_vars    == <<call, returned>>
size_vars    == <<screen_width, screen_height, max_splats, splats_uploaded,
                 framebuffer_capacity_pixels, last_render_width, last_render_height, frame_id,
                 expected_image>>
input_vars   == <<input_queue, tx_alive, quit_requested, held, camera_mode, loop_pc,
                 drain_returned,
                 frames_rendered, raw_mode, run_result, cleanup_result, sent, received>>
aux_vars     == <<raster_vars, pure_vars, size_vars, input_vars>>
vars == <<caller, splat_count, backend_vars, app_vars, frame_vars, call_vars, hist_vars, sort_vars,
          aux_vars>>

(***************************************************************************)
(* Bounds of the model.                                                    *)
(***************************************************************************)
MaxSplats == 2
MaxOverlapExp == 4
\* the largest scanned counts are just above 256 ^ MaxScanLevels
MaxScanLevels == 2
\* sleeps of one wait after which GPU_WAIT_TIMEOUT has elapsed
MaxPolls == 1

\* total_overlaps values the GPU may report: 0, and values just above a power of four,
\* so that a value exceeds the capacity grown for the one before it.
OverlapChoices == {0} \cup {4^k + 1 : k \in 1..MaxOverlapExp}

\* stage B scenes: the splats that may be visible (0 and 16 share their low four index
\* bits), the tiles they may span and the quantized depths they may have
SortSplatIds == {0, 1, 16}
SortTileIds == {1, 4}

(***************************************************************************)
(* Program constants.                                                      *)
(***************************************************************************)
SHRINK_FRAMES == 60
MAX_TILES == 1023
RADIX_BUCKETS == 256
TILE_BITS == 10
DEPTH_BITS == 18
TIE_BITS == 4
STAGE_A == "project_count_scan"
STAGE_B == "sort_rasterize"

(***************************************************************************)
(* Pure helpers of the back-end.                                           *)
(***************************************************************************)
Max(a, b) == IF a >= b THEN a ELSE b

RECURSIVE next_power_of_two(_)
next_power_of_two(n) == IF n <= 1 THEN 1 ELSE 2 * next_power_of_two((n + 1) \div 2)

\* mutant of ensure_sort_capacity: the buffers get exactly the requested size
ensure_sort_capacity_exact(capacity, overlaps) ==
    IF overlaps <= capacity THEN capacity ELSE overlaps

\* mutant of ensure_sort_capacity: the buffers are re-allocated but the field keeps its old value
ensure_sort_capacity_keeps_field(capacity, overlaps) == capacity

\* buffers.rs ensure_sort_capacity + reallocate_sort_buffers: the new sort_capacity
ensure_sort_capacity(capacity, overlaps) ==
    IF overlaps <= capacity THEN capacity ELSE next_power_of_two(overlaps)

\* buffers.rs ensure_sort_capacity_with_headroom
ensure_sort_capacity_with_headroom(capacity, required_overlaps, num, den) ==
    LET d == Max(den, 1)
        headroom == (required_overlaps * num + d - 1) \div d
    IN  ensure_sort_capacity(capacity, Max(headroom, 1))

\* render.rs: the estimate at the top of the retry loop
estimated_overlaps(prev, count) ==
    Max(IF prev > 0 THEN Max(prev * 2, count * 4) ELSE count * 8, 1)

\* mutant of growth_target: asks for the overlaps themselves, not twice as many
growth_target_no_doubling(total) == Max(total, 1)

\* render.rs: growth_target / retry_target after an overflowing attempt
growth_target(total) == Max(total * 2, 1)

\* mutant of retry_exhausted: allows a second re-submission
retry_exhausted_after_two(att) == att >= 2

\* render.rs: `if attempt >= 1`
retry_exhausted(att) == att >= 1

\* mutant of maybe_shrink_sort_capacity: a frame counts as quiet when it is below the
\* whole capacity, and the halved buffers are not checked against the frame's overlaps
maybe_shrink_sort_capacity_unchecked(capacity, below, actual_overlaps) ==
    IF capacity <= 1 THEN [capacity |-> capacity, below |-> 0]
    ELSE IF actual_overlaps < capacity
         THEN IF below + 1 >= SHRINK_FRAMES
              THEN [capacity |-> Max(capacity \div 2, 1), below |-> 0]
              ELSE [capacity |-> capacity, below |-> below + 1]
         ELSE [capacity |-> capacity, below |-> 0]

\* buffers.rs maybe_shrink_sort_capacity: the new (sort_capacity, frames_below_threshold)
maybe_shrink_sort_capacity(capacity, below, actual_overlaps) ==
    IF capacity <= 1 THEN [capacity |-> capacity, below |-> 0]
    ELSE LET shrink_threshold == capacity \div 2 IN
         IF actual_overlaps < shrink_threshold
         THEN IF below + 1 >= SHRINK_FRAMES
              THEN LET new_capacity == Max(capacity \div 2, 1) IN
                   [capacity |-> IF actual_overlaps <= new_capacity THEN new_capacity ELSE capacity,
                    below |-> 0]
              ELSE [capacity |-> capacity, below |-> below + 1]
         ELSE [capacity |-> capacity, below |-> 0]

\* mutant of should_disable_gpu: a timeout is not treated as fatal
should_disable_gpu_ignores_timeout(kind) == kind \in {"GpuDisabled", "CommandBufferFailed"}

\* mutant of should_disable_gpu: a deferred overflow is treated as fatal
should_disable_gpu_on_overflow(kind) ==
    kind \in {"GpuDisabled", "Timeout", "CommandBufferFailed", "OverflowDeferred"}

\* error.rs MetalRenderError::should_disable_gpu
should_disable_gpu(kind) == kind \in {"GpuDisabled", "Timeout", "CommandBufferFailed"}

\* sync.rs commit_and_wait_with_timeout: the error a final status maps to
wait_error(status) == IF status = "Error" THEN "CommandBufferFailed" ELSE "Timeout"

\* mutant of record_gpu_error: the error is dropped
record_gpu_error_dropped(kind) == "None"

\* frame.rs record_gpu_error: the new last_gpu_error
record_gpu_error(kind) == kind

\* mutant of gpu_guard: render does not look at gpu_disabled
gpu_guard_missing(disabled) == FALSE

\* render.rs: `if self.gpu_disabled { return Err(GpuDisabled) }`
gpu_guard(disabled) == disabled

\* tile_ops emit_tile_keys: the overflow flag is set when a slot falls at or beyond sort_capacity
emit_overflow_flag(total, capacity) == IF total > capacity THEN 1 ELSE 0

\* mutant of wait_ok: a timeout is taken for completion
wait_ok_on_timeout(status) == status # "Error"

\* sync.rs commit_and_wait_with_timeout returns Ok
wait_ok(status) == status = "Completed"

\* the command buffer is still on the GPU when the wait returns: only after a timeout
still_running(status) == status = "Timeout"

\* render.rs run_single_render_attempt: `let dispatch_overlaps = sort_capacity_u32;`
dispatch_overlaps(total, capacity) == capacity

\* render.rs run_single_render_attempt: what stage B encodes after emit_tile_keys
encode_stage_b(total, capacity) ==
    [dispatch_overlaps |-> dispatch_overlaps(total, capacity),
     sort |-> dispatch_overlaps(total, capacity) > 0]

Result(kind, stage) == [kind |-> kind, stage |-> stage]
NoStage == "none"

(***************************************************************************)
(* Initial state: main() after MetalBackend::new and upload_splats, or a   *)
(* direct caller after the same two calls.                                 *)
(***************************************************************************)
MainInit ==
    /\ caller \in {"frame_loop", "direct"}
    /\ splat_count \in (0..MaxSplats)
    /\ backend \in (IF caller = "frame_loop" THEN {"Metal", "Cpu"} ELSE {"Metal"})
    /\ metal_backend = (IF backend = "Metal" THEN "Some" ELSE "None")
    /\ last_gpu_error = "None"
    /\ gpu_fallback_active = FALSE
    /\ gpu_disabled = FALSE
    /\ sort_capacity = 1
    /\ previous_total_overlaps = 0
    /\ frames_below_threshold = 0
    /\ pc = "idle"
    /\ attempt = 0
    /\ total_overlaps = 0
    /\ overflow_flag = 0
    /\ stage_status = "none"
    /\ render_result = Result("none", NoStage)
    /\ submits = 0
    /\ reads = 0
    /\ rasterized_by = "none"
    /\ presented = "none"
    /\ monotone = TRUE
    /\ max_observed = 0
    /\ static_total = -1
    /\ in_flight = FALSE
    /\ polls = 0
    /\ stage_b = [dispatch_overlaps |-> 0, sort |-> FALSE]
    /\ host_raced = FALSE

\* stage B is not looked into: its buffers are empty
SortIdle ==
    /\ scene = [i \in SortSplatIds |-> [tiles |-> {}, depth |-> 0]]
    /\ sort_pc = "emit"
    /\ sort_keys_a = <<>>
    /\ sort_values_a = <<>>
    /\ sort_keys_b = <<>>
    /\ sort_values_b = <<>>
    /\ keys_in_a = TRUE
    /\ pass = 0
    /\ emitted = <<>>
    /\ framebuffer = [t \in SortTileIds |-> 0]
    /\ reference = <<>>

\* the CPU rasterizer before any frame: empty buffers, nothing to draw
RasterIdle ==
    /\ width = 0
    /\ height = 0
    /\ num_threads = 1
    /\ projected_splats = <<>>
    /\ render_framebuffer = <<>>
    /\ alpha_buffer = <<>>
    /\ depth_buffer = <<>>
    /\ band_next = <<>>
    /\ band_writers = <<>>
    /\ band_order = <<>>

\* no call of the loaders or the sorter is under way
PureIdle ==
    /\ call = [op |-> "none"]
    /\ returned = [kind |-> "pending"]

\* MetalBackend::new and upload_splats as main runs them; no render at a given size yet
SizeIdle ==
    /\ screen_width = 0
    /\ screen_height = 0
    /\ max_splats = MaxSplats
    /\ splats_uploaded = TRUE
    /\ framebuffer_capacity_pixels = 1
    /\ last_render_width = 0
    /\ last_render_height = 0
    /\ frame_id = 0
    /\ expected_image = <<>>

\* main before the input thread is spawned: the terminal is not in raw mode yet
InputIdle ==
    /\ input_queue = <<>>
    /\ tx_alive = FALSE
    /\ quit_requested = FALSE
    /\ held = [forward |-> FALSE, back |-> FALSE, left |-> FALSE, right |-> FALSE]
    /\ camera_mode = "Free"
    /\ loop_pc = "start"
    /\ drain_returned = "none"
    /\ frames_rendered = 0
    /\ raw_mode = FALSE
    /\ run_result = "running"
    /\ cleanup_result = "none"
    /\ sent = <<>>
    /\ received = <<>>

Init == MainInit /\ SortIdle /\ RasterIdle /\ PureIdle /\ SizeIdle /\ InputIdle

(***************************************************************************)
(* What the caller does when render returns res.                           *)
(* frame.rs: gpu_render_to_framebuffer and the rest of render_frame.       *)
(***************************************************************************)
ReturnToCaller(res) ==
    /\ pc' = "idle"
    /\ polls' = 0
    /\ render_result' = res
    /\ IF caller = "frame_loop"
       THEN IF res.kind = "Ok"
            THEN /\ UNCHANGED app_vars
                 /\ rasterized_by' = "gpu"
                 /\ presented' = "gpu"
            ELSE /\ last_gpu_error' = record_gpu_error(res.kind)
                 /\ IF should_disable_gpu(res.kind)
                    THEN /\ backend' = "Cpu"
                         /\ metal_backend' = "None"
                         /\ gpu_fallback_active' = TRUE
                    ELSE UNCHANGED <<backend, metal_backend, gpu_fallback_active>>
                 \* gpu_rendered = false: cpu_project_and_sort + rasterize_splats
                 /\ rasterized_by' = "cpu"
                 /\ presented' = "cpu"
       ELSE UNCHANGED <<app_vars, frame_vars>>

(***************************************************************************)
(* render.rs MetalBackend::render from its entry to the first wait, or to  *)
(* an early return.                                                        *)
(***************************************************************************)
RenderEnter ==
    /\ UNCHANGED <<caller, splat_count, monotone, max_observed, static_total, total_overlaps,
                   overflow_flag,
                   stage_status, stage_b>>
    /\ UNCHANGED <<sort_vars, aux_vars>>
    /\ reads' = 0
    /\ IF gpu_guard(gpu_disabled)
       THEN /\ ReturnToCaller(Result("GpuDisabled", NoStage))
            /\ submits' = 0
            /\ UNCHANGED <<backend_vars, attempt, in_flight, host_raced>>
       ELSE IF splat_count = 0
       THEN \* ensure_framebuffer_capacity, clear_framebuffer, return Ok
            /\ ReturnToCaller(Result("Ok", NoStage))
            /\ submits' = 0
            /\ host_raced' = (host_raced \/ in_flight)
            /\ UNCHANGED <<backend_vars, attempt, in_flight>>
       ELSE \* attempt 0: top of the loop, then stage A is committed
            /\ attempt' = 0
            /\ host_raced' = (host_raced \/ in_flight)
            /\ in_flight' = TRUE
            /\ sort_capacity' = ensure_sort_capacity_with_headroom(
                   sort_capacity, estimated_overlaps(previous_total_overlaps, splat_count), 2, 1)
            /\ submits' = 1
            /\ polls' = 0
            /\ pc' = "wait_stage_a"
            /\ UNCHANGED <<gpu_disabled, previous_total_overlaps, frames_below_threshold>>
            /\ UNCHANGED <<render_result, app_vars, frame_vars>>

\* frame.rs render_frame, Halfblock mode with backend == Metal: the GPU path
FrameGpu ==
    /\ caller = "frame_loop"
    /\ pc = "idle"
    /\ backend = "Metal"
    /\ metal_backend = "Some"
    /\ RenderEnter

\* frame.rs render_frame, Halfblock mode without a usable Metal back-end: the CPU path
FrameCpu ==
    /\ caller = "frame_loop"
    /\ pc = "idle"
    /\ (backend = "Cpu" \/ metal_backend = "None")
    /\ rasterized_by' = "cpu"
    /\ presented' = "cpu"
    /\ UNCHANGED <<caller, splat_count, backend_vars, app_vars, call_vars, hist_vars, sort_vars, aux_vars>>

\* frame.rs render_frame, the character modes: CPU projection only, no pixel buffer
FrameCharacter ==
    /\ caller = "frame_loop"
    /\ pc = "idle"
    /\ rasterized_by' = "none"
    /\ presented' = "glyphs"
    /\ UNCHANGED <<caller, splat_count, backend_vars, app_vars, call_vars, hist_vars, sort_vars, aux_vars>>

\* a direct caller (as the tests of the back-end do) calls render again
DirectRender ==
    /\ caller = "direct"
    /\ pc = "idle"
    /\ RenderEnter

(***************************************************************************)
(* sync.rs commit_and_wait_or_disable_gpu returning an error: the flag is  *)
(* set and `?` makes run_single_render_attempt and render return it.       *)
(***************************************************************************)
WaitFailed(status, stage) ==
    LET kind == wait_error(status) IN
    /\ stage_status' = status
    /\ gpu_disabled' = (IF should_disable_gpu(kind) THEN TRUE ELSE gpu_disabled)
    /\ in_flight' = still_running(status)
    /\ ReturnToCaller(Result(kind, stage))
    /\ UNCHANGED <<caller, splat_count, sort_capacity, previous_total_overlaps,
                   frames_below_threshold, attempt, total_overlaps, overflow_flag,
                   submits, reads, stage_b, hist_vars>>

\* mutant of timed_out: the elapsed time is never compared with the timeout
timed_out_never(polled) == FALSE

\* sync.rs: start.elapsed() >= timeout
timed_out(polled) == polled >= MaxPolls

\* what a wait that has slept `polled` times can end with: Completed or Error when the
\* status says so, Timeout when the time is up and the command buffer is still running
wait_ends(status, polled) == status = "Timeout" => timed_out(polled)

\* sync.rs commit_and_wait_with_timeout, the `_` arm before the timeout: the command
\* buffer is still running, the host sleeps 1 ms and polls again
WaitPoll ==
    /\ pc \in {"wait_stage_a", "wait_stage_b"}
    /\ ~timed_out(polls)
    /\ polls' = (IF polls < MaxPolls THEN polls + 1 ELSE polls)
    /\ UNCHANGED <<caller, splat_count, backend_vars, app_vars, frame_vars, hist_vars, sort_vars,
                   aux_vars, pc, attempt, total_overlaps, overflow_flag, stage_status,
                   render_result, submits, reads, in_flight, stage_b>>

\* the wait on stage A ends: read total_overlaps and commit stage B, or fail
StageADone(status, total) ==
    /\ pc = "wait_stage_a"
    /\ wait_ends(status, polls)
    /\ UNCHANGED <<sort_vars, aux_vars>>
    /\ IF ~wait_ok(status)
       THEN WaitFailed(status, STAGE_A)
       ELSE /\ total <= splat_count * MAX_TILES
            /\ stage_status' = status
            \* read total_overlaps, ensure_histogram_capacity, encode and commit stage B
            /\ total_overlaps' = total
            /\ reads' = reads + 1
            /\ host_raced' = (host_raced \/ still_running(status))
            /\ stage_b' = encode_stage_b(total, sort_capacity)
            /\ submits' = submits + 1
            /\ in_flight' = TRUE
            /\ polls' = 0
            /\ pc' = "wait_stage_b"
            /\ UNCHANGED <<caller, splat_count, backend_vars, app_vars, frame_vars,
                           attempt, overflow_flag, render_result, monotone, max_observed,
                           static_total>>

\* the wait on stage B ends: read the overflow flag, then the tail of the retry loop
StageBDone(status) ==
    /\ pc = "wait_stage_b"
    /\ wait_ends(status, polls)
    /\ UNCHANGED <<sort_vars, aux_vars>>
    /\ IF ~wait_ok(status)
       THEN WaitFailed(status, STAGE_B)
       ELSE LET flag == emit_overflow_flag(total_overlaps, sort_capacity)
                grown == ensure_sort_capacity(sort_capacity, growth_target(total_overlaps))
                shrunk == maybe_shrink_sort_capacity(sort_capacity, frames_below_threshold,
                                                     total_overlaps)
            IN
            /\ stage_status' = status
            /\ overflow_flag' = flag
            /\ reads' = reads + 1
            /\ previous_total_overlaps' = total_overlaps
            /\ monotone' = (monotone /\ total_overlaps >= previous_total_overlaps)
            /\ max_observed' = Max(max_observed, total_overlaps)
            /\ static_total' = (IF static_total \in {-1, total_overlaps} THEN total_overlaps ELSE -2)
            \* the flag is read, buffers are re-allocated and (frame loop) the pixels are read
            /\ host_raced' = (host_raced \/ still_running(status))
            /\ UNCHANGED <<caller, splat_count, gpu_disabled, total_overlaps, stage_b>>
            /\ IF flag = 0
               THEN /\ sort_capacity' = shrunk.capacity
                    /\ frames_below_threshold' = shrunk.below
                    /\ ReturnToCaller(Result("Ok", NoStage))
                    /\ in_flight' = still_running(status)
                    /\ UNCHANGED <<attempt, submits>>
               ELSE IF retry_exhausted(attempt)
               THEN /\ sort_capacity' = grown
                    /\ ReturnToCaller(Result("OverflowDeferred", NoStage))
                    /\ in_flight' = still_running(status)
                    /\ UNCHANGED <<frames_below_threshold, attempt, submits>>
               ELSE \* grow, attempt += 1, top of the loop again, stage A committed
                    /\ sort_capacity' = ensure_sort_capacity_with_headroom(
                           grown, estimated_overlaps(total_overlaps, splat_count), 2, 1)
                    /\ attempt' = attempt + 1
                    /\ submits' = submits + 1
                    /\ in_flight' = TRUE
                    /\ polls' = 0
                    /\ pc' = "wait_stage_a"
                    /\ UNCHANGED <<frames_below_threshold, render_result, app_vars, frame_vars>>

\* a command buffer the host stopped waiting for finishes on the GPU
GpuFinishesLate ==
    /\ pc = "idle"
    /\ in_flight
    /\ in_flight' = FALSE
    /\ UNCHANGED <<caller, splat_count, backend_vars, app_vars, frame_vars, hist_vars, sort_vars,
                   aux_vars, pc, attempt, total_overlaps, overflow_flag, stage_status,
                   render_result, submits, reads, polls, stage_b>>

Next ==
    \/ FrameGpu
    \/ FrameCpu
    \/ FrameCharacter
    \/ DirectRender
    \/ \E status \in {"Completed", "Error", "Timeout"}, total \in OverlapChoices :
          StageADone(status, total)
    \/ \E status \in {"Completed", "Error", "Timeout"} : StageBDone(status)
    \/ WaitPoll
    \/ GpuFinishesLate

Spec == Init /\ [][Next]_vars

\* the host thread keeps running: a wait that can sleep or give up does so; nothing is
\* assumed of the GPU, whose command buffers may never complete
LiveSpec ==
    /\ Spec
    /\ WF_vars(\/ WaitPoll
               \/ StageADone("Timeout", 0)
               \/ StageBDone("Timeout"))

(***************************************************************************)
(* Properties of the orchestrator and the frame loop.                      *)
(***************************************************************************)

\* C1: when the wait on stage A or stage B ends with status Error, or with the
\* timeout expired, render sets gpu_disabled and returns the matching error
\* without committing another command buffer or reading any result, and the
\* frame loop sets backend to Cpu and drops the Metal back-end.
C1_StageFailureDisablesGpu ==
    [][(pc \in {"wait_stage_a", "wait_stage_b"} /\ stage_status' \in {"Error", "Timeout"}) =>
         /\ gpu_disabled'
         /\ pc' = "idle"
         /\ render_result'.kind =
                (IF stage_status' = "Error" THEN "CommandBufferFailed" ELSE "Timeout")
         /\ render_result'.stage = (IF pc = "wait_stage_a" THEN STAGE_A ELSE STAGE_B)
         /\ submits' = submits
         /\ reads' = reads
         /\ UNCHANGED <<sort_capacity, previous_total_overlaps, frames_below_threshold>>
         /\ (caller = "frame_loop" => backend' = "Cpu" /\ metal_backend' = "None")]_vars

C1_Witness ==
    /\ caller = "frame_loop"
    /\ render_result = Result("Timeout", STAGE_B)
    /\ stage_status = "Timeout"
    /\ gpu_disabled
    /\ backend = "Cpu"
    /\ metal_backend = "None"

\* C2: once gpu_disabled is set it stays set, no command buffer is committed any
\* more, the back-end's buffers and counters are not touched, the application
\* backend stays Cpu, and a render call returns GpuDisabled.
C2_DisabledIsPermanent ==
    [][gpu_disabled =>
         /\ gpu_disabled'
         /\ pc' = "idle"
         /\ submits' \in {submits, 0}
         /\ UNCHANGED <<sort_capacity, previous_total_overlaps, frames_below_threshold>>
         /\ (caller = "frame_loop" => backend' = "Cpu" /\ metal_backend' = "None")
         /\ (render_result' # render_result => render_result'.kind = "GpuDisabled")]_vars

C2_Witness ==
    /\ caller = "direct"
    /\ gpu_disabled
    /\ render_result.kind = "GpuDisabled"
    /\ submits = 0

\* C3: a render call makes at most two attempts: an overflow on the first attempt
\* re-submits exactly once, an overflow on the second makes render return
\* OverflowDeferred without a further submission.
C3_AtMostTwoAttempts ==
    [][/\ attempt' <= 1
       /\ submits' <= 4
       /\ (pc = "wait_stage_b" /\ reads' = reads + 1 /\ stage_status' = "Completed"
              /\ overflow_flag' = 1) =>
            IF attempt = 0
            THEN pc' = "wait_stage_a" /\ attempt' = 1 /\ submits' = submits + 1
                 /\ render_result' = render_result
            ELSE pc' = "idle" /\ render_result'.kind = "OverflowDeferred"
                 /\ attempt' = attempt /\ submits' = submits]_vars

C3_Witness ==
    /\ pc = "idle"
    /\ render_result.kind = "OverflowDeferred"
    /\ attempt = 1
    /\ submits = 4
    /\ overflow_flag = 1

\* C4: when render returns OverflowDeferred the GPU is not disabled, the frame
\* loop keeps backend = Metal and the back-end object, sort_capacity has already
\* been grown to at least twice the reported overlaps, and the next Halfblock
\* frame starts a GPU attempt again.
C4_OverflowDeferredNonFatal ==
    [][/\ (render_result'.kind = "OverflowDeferred" /\ pc' = "idle") =>
            /\ ~gpu_disabled'
            /\ sort_capacity' >= 2 * previous_total_overlaps'
            /\ (caller = "frame_loop" =>
                    backend' = "Metal" /\ metal_backend' = "Some" /\ ~gpu_fallback_active')
       /\ (render_result.kind = "OverflowDeferred" /\ pc = "idle" /\ ~FrameCharacter) =>
            (pc' = "wait_stage_a" /\ submits' = 1 /\ attempt' = 0)]_vars

C4_Witness ==
    /\ caller = "frame_loop"
    /\ render_result.kind = "OverflowDeferred"
    /\ pc = "wait_stage_a"
    /\ attempt = 0
    /\ backend = "Metal"
    /\ ~gpu_disabled

\* C5: in the frame in which render returned OverflowDeferred the frame loop
\* rasterizes neither on the GPU nor on the CPU and presents the previous frame's
\* pixel buffer.  (The statement of the specification; render_frame does not do this.)
C5_DeferredFrameSkipsRasterization ==
    (caller = "frame_loop" /\ pc = "idle" /\ render_result.kind = "OverflowDeferred"
        /\ presented # "glyphs") =>
        (rasterized_by = "none" /\ presented = "previous")

\* C6 as stated: an overflow that persists after the retry disables the back-end,
\* records a last-error string and switches the frame loop to Cpu.
C6_OverflowAfterRetryDisables ==
    (caller = "frame_loop" /\ pc = "idle" /\ render_result.kind = "OverflowDeferred") =>
        (gpu_disabled /\ last_gpu_error # "None" /\ backend = "Cpu")

\* C6 amended: an overflow that persists after the retry makes render return
\* OverflowDeferred; the frame loop records it as the last-error string, but the
\* back-end is not disabled and the frame loop stays on Metal.
C6_OverflowAfterRetryRecorded ==
    (caller = "frame_loop" /\ pc = "idle" /\ attempt = 1 /\ overflow_flag = 1
        /\ stage_status = "Completed") =>
        /\ render_result.kind = "OverflowDeferred"
        /\ last_gpu_error = "OverflowDeferred"
        /\ ~gpu_disabled
        /\ backend = "Metal"
        /\ metal_backend = "Some"

C6_Witness ==
    /\ caller = "frame_loop"
    /\ pc = "idle"
    /\ attempt = 1
    /\ overflow_flag = 1
    /\ stage_status = "Completed"
    /\ last_gpu_error = "OverflowDeferred"
    /\ backend = "Metal"

\* C7: after an attempt that reported overflow with total_overlaps = T, both at
\* the re-submission and when OverflowDeferred is returned, sort_capacity is at
\* least max(2*T, 1).
C7_GrownAfterOverflow ==
    overflow_flag = 1 => sort_capacity >= Max(2 * previous_total_overlaps, 1)

C7_Witness ==
    /\ overflow_flag = 1
    /\ pc = "idle"
    /\ render_result.kind = "OverflowDeferred"
    /\ previous_total_overlaps > 0
    /\ sort_capacity >= 2 * previous_total_overlaps

\* C8: as long as the reported total_overlaps never decrease, after every frame
\* whose render call returned Ok or OverflowDeferred sort_capacity is at least the
\* overlaps of that frame, hence never below half of the largest overlaps observed.
C8_CapacityFollowsGrowth ==
    (monotone /\ pc = "idle" /\ render_result.kind \in {"Ok", "OverflowDeferred"}
        /\ splat_count > 0) =>
        /\ sort_capacity >= previous_total_overlaps
        /\ previous_total_overlaps = max_observed
        /\ 2 * sort_capacity >= max_observed

C8_Witness ==
    /\ monotone
    /\ pc = "idle"
    /\ render_result.kind = "Ok"
    /\ max_observed > 4 * 8 * splat_count
    /\ sort_capacity >= max_observed
    /\ splat_count > 0

\* C21: sort_capacity gets smaller only at the end of a non-overflowing frame that is the
\* 60th in a row with total_overlaps below half of sort_capacity; it is then halved, stays
\* at least 1 and at least that frame's total_overlaps, and the counter restarts from 0;
\* the counter also restarts on any frame whose overlaps are at least half the capacity.
C21_ShrinkAfterSixtyQuietFrames ==
    [][LET FrameEnds == pc = "wait_stage_b" /\ pc' = "idle" /\ stage_status' = "Completed"
       IN
       /\ sort_capacity' < sort_capacity
          => (/\ FrameEnds
              /\ render_result'.kind = "Ok"
              /\ overflow_flag' = 0
              /\ frames_below_threshold + 1 = SHRINK_FRAMES
              /\ total_overlaps < sort_capacity \div 2
              /\ sort_capacity' = sort_capacity \div 2
              /\ sort_capacity' >= 1
              /\ sort_capacity' >= total_overlaps
              /\ frames_below_threshold' = 0)
       /\ (FrameEnds /\ total_overlaps >= sort_capacity \div 2)
          => frames_below_threshold' = 0]_vars

\* C22: within an attempt stage B is committed only after stage A has completed;
\* total_overlaps is read between the two and is the dispatch count stage B is encoded
\* with; the overflow flag is read only after stage B has completed.
C22_StageBFollowsStageACount ==
    [][/\ (pc = "wait_stage_a" /\ pc' = "wait_stage_b")
          => (/\ stage_status' = "Completed"
              /\ reads' = reads + 1
              /\ submits' = submits + 1
              /\ stage_b'.dispatch_overlaps = total_overlaps')
       /\ (pc = "wait_stage_b" /\ reads' = reads + 1) => stage_status' = "Completed"]_vars

\* C23: the radix sort and the tile rasterizer are never encoded for an attempt whose
\* total_overlaps exceeds sort_capacity.
C23_NoSortBeyondCapacity ==
    (pc = "wait_stage_b" /\ stage_b.sort) => total_overlaps <= sort_capacity

\* C24: the host writes the staging buffers and re-allocates GPU buffers only while no
\* command buffer is in flight, and reads total_overlaps, the overflow flag and the
\* framebuffer only after the command buffer that produces them has completed; a command
\* buffer can be left in flight only by a timeout, after which the back-end is disabled.
C24_HostNeverRacesGpu ==
    /\ ~host_raced
    /\ (pc = "idle" /\ in_flight) => gpu_disabled
    /\ (pc # "idle") => in_flight

C24_Witness ==
    /\ caller = "direct"
    /\ pc = "idle"
    /\ in_flight
    /\ stage_status = "Timeout"
    /\ render_result.kind = "GpuDisabled"
    /\ reads = 0
    /\ ~host_raced

\* C31: while every attempt so far has reported the same total_overlaps (and splat_count
\* is fixed), no step taken after a render call returned Ok changes sort_capacity: the
\* sort buffers are neither shrunk nor grown again.
C31_StaticSceneCapacitySettles ==
    [][(render_result.kind = "Ok" /\ static_total >= 0 /\ static_total' >= 0)
         => sort_capacity' = sort_capacity]_vars

\* C32: when a render call of a non-empty scene has returned Ok, sort_capacity is at
\* least the total_overlaps of that frame, also when the call halved the sort buffers.
C32_OkFrameFitsCapacity ==
    (pc = "idle" /\ render_result.kind = "Ok" /\ splat_count > 0)
        => sort_capacity >= total_overlaps

\* an Ok frame that was the 60th quiet one in a row: the buffers have just been halved
C32_Witness ==
    /\ pc = "idle"
    /\ render_result.kind = "Ok"
    /\ stage_status = "Completed"
    /\ splat_count > 0
    /\ total_overlaps > 0
    /\ frames_below_threshold = 0
    /\ sort_capacity > 1
    /\ 2 * total_overlaps < sort_capacity
    /\ max_observed > total_overlaps

\* C33: when the second attempt of a render call ends, it has not overflowed if it
\* reported the total_overlaps of the first attempt, and the call returns
\* OverflowDeferred only if total_overlaps grew from the first attempt to the second.
C33_SecondAttemptFitsSameTotal ==
    [][(pc = "wait_stage_b" /\ attempt = 1 /\ pc' = "idle")
         => /\ (render_result'.kind = "OverflowDeferred"
                   => total_overlaps > previous_total_overlaps)
            /\ (total_overlaps = previous_total_overlaps
                   => render_result'.kind /= "OverflowDeferred"
                      /\ (render_result'.kind = "Ok" => overflow_flag' = 0))]_vars

\* the second attempt of a call has reported the overlaps that overflowed the first
C33_Witness ==
    /\ pc = "wait_stage_b"
    /\ attempt = 1
    /\ overflow_flag = 1
    /\ total_overlaps > 0
    /\ total_overlaps = previous_total_overlaps

\* C34: sort_capacity is a power of two, at least 1, in every reachable state.
C34_CapacityPowerOfTwo ==
    /\ sort_capacity >= 1
    /\ \E k \in 0..20 : sort_capacity = 2 ^ k

\* the buffers were grown for a busy frame, halved below it since, and the quiet-frame
\* count is running again
C34_Witness ==
    /\ sort_capacity > 1
    /\ max_observed > sort_capacity
    /\ frames_below_threshold > 0
    /\ previous_total_overlaps > 0

\* C36: every render call returns: a wait polls at most MaxPolls times before it ends,
\* the retry loop makes at most two attempts, and a call that is under way leads to the
\* host being back in its caller, also when no command buffer ever completes.
C36_RenderTerminates ==
    /\ [](polls <= MaxPolls /\ attempt <= 1)
    /\ ((pc # "idle") ~> (pc = "idle"))

\* the second attempt waits on stage B and its timeout has elapsed
C36_Witness ==
    /\ pc = "wait_stage_b"
    /\ attempt = 1
    /\ in_flight
    /\ polls = MaxPolls

(***************************************************************************)
(* Stage B seen from inside: emit_tile_keys, the four radix passes encoded *)
(* by run_radix_sort_passes, rasterize_tiles, and the host reading the     *)
(* framebuffer back (as test_render_determinism does, render after render).*)
(* The scenes are small enough for one threadgroup of 256 threads.         *)
(***************************************************************************)
main_vars == <<caller, splat_count, backend_vars, app_vars, frame_vars, call_vars, hist_vars,
               aux_vars>>

\* sort key of an emitted pair: tile id, quantized depth, low bits of the splat index
key_tile_field(tile) == tile % 2^TILE_BITS
key_low_bits(depth, index) == (depth % 2^DEPTH_BITS) * 2^TIE_BITS + (index % 2^TIE_BITS)
pack_key(tile, depth, index) ==
    key_tile_field(tile) * 2^(DEPTH_BITS + TIE_BITS) + key_low_bits(depth, index)

key_tile(key) == key \div 2^(DEPTH_BITS + TIE_BITS)
key_depth(key) == (key \div 2^TIE_BITS) % 2^DEPTH_BITS

\* mutant of RadixBitOffsets: the last pass repeats offset 16
RadixBitOffsets_repeat16 == <<0, 8, 16, 16>>

\* mutant of RadixBitOffsets: the pass over the top byte is left out
RadixBitOffsets_three_passes == <<0, 8, 16>>

\* sort.rs run_radix_sort_passes: `for bit_offset in [0u32, 8, 16, 24]`
RadixBitOffsets == <<0, 8, 16, 24>>

\* radix_sort kernels: the bucket of a key in the pass at bit_offset
radix_digit(key, bit_offset) == (key \div 2^bit_offset) % RADIX_BUCKETS

\* radix_sort kernels: histogram, exclusive scan over the buckets, scatter.  The element
\* at position i goes behind all elements of smaller buckets and behind the earlier
\* elements of its own bucket.
radix_scatter_position(keys, bit_offset, i) ==
    LET d == radix_digit(keys[i], bit_offset) IN
    Cardinality({j \in DOMAIN keys : radix_digit(keys[j], bit_offset) < d})
      + Cardinality({j \in 1..(i - 1) : radix_digit(keys[j], bit_offset) = d}) + 1

\* one pass applied to a buffer (keys or values) that travels with `keys`
radix_scatter(buffer, keys, bit_offset) ==
    [p \in DOMAIN keys |->
        buffer[CHOOSE i \in DOMAIN keys : radix_scatter_position(keys, bit_offset, i) = p]]

\* the (splat, tile) overlaps of the scene
Overlaps == {<<i, t>> \in SortSplatIds \X SortTileIds : t \in scene[i].tiles}

\* count_tile_overlaps: tile_counts[t]
tile_counts(t) == Cardinality({o \in Overlaps : o[2] = t})

\* prefix scan of tile_counts: tile_offsets[t], the exclusive prefix sum
tile_offsets(t) == Cardinality({o \in Overlaps : o[2] < t})

\* emit_tile_keys: the slots the threads may obtain from the per-tile counters; within
\* a tile every order of the atomic fetch-and-increment is possible
SlotAssignments ==
    {f \in [Overlaps -> 0..(Cardinality(SortSplatIds) - 1)] :
        /\ \A o \in Overlaps : f[o] < tile_counts(o[2])
        /\ \A o1, o2 \in Overlaps : (o1 # o2 /\ o1[2] = o2[2]) => f[o1] # f[o2]}

\* tile_rasterize: the pixel of a tile after blending values[k..last] front to back; every
\* splat covers the pixel with alpha 1/2, so each weighs half of the one before it
RECURSIVE tile_pixel(_, _, _, _)
tile_pixel(values, k, last, weight) ==
    IF k > last THEN 0
    ELSE (values[k] + 1) * weight + tile_pixel(values, k + 1, last, weight \div 2)

Scenes ==
    [SortSplatIds ->
        {[tiles |-> {}, depth |-> 0]} \cup
        {[tiles |-> T, depth |-> d] : T \in (SUBSET SortTileIds) \ {{}}, d \in {64, 4096}}]

SortInit ==
    /\ MainInit
    /\ RasterIdle /\ PureIdle /\ SizeIdle /\ InputIdle
    /\ caller = "direct"
    /\ splat_count = MaxSplats
    /\ scene \in Scenes
    /\ sort_pc = "emit"
    /\ sort_keys_a = <<>>
    /\ sort_values_a = <<>>
    /\ sort_keys_b = <<>>
    /\ sort_values_b = <<>>
    /\ keys_in_a = TRUE
    /\ pass = 0
    /\ emitted = <<>>
    /\ framebuffer = [t \in SortTileIds |-> 0]
    /\ reference = <<>>

\* emit_tile_keys writes key and value of every overlap at tile_offsets[tile] + slot
EmitTileKeys ==
    /\ sort_pc = "emit"
    /\ \E slot \in SlotAssignments :
         LET at(p) == CHOOSE o \in Overlaps : tile_offsets(o[2]) + slot[o] + 1 = p
             n == Cardinality(Overlaps)
             keys == [p \in 1..n |-> pack_key(at(p)[2], scene[at(p)[1]].depth, at(p)[1])]
             values == [p \in 1..n |-> at(p)[1]]
         IN /\ sort_keys_a' = keys
            /\ sort_values_a' = values
            /\ emitted' = [p \in 1..n |-> [key |-> keys[p], value |-> values[p]]]
    /\ keys_in_a' = TRUE
    /\ pass' = 0
    /\ sort_pc' = "sort"
    /\ UNCHANGED <<main_vars, scene, sort_keys_b, sort_values_b, framebuffer, reference>>

\* one iteration of the loop of run_radix_sort_passes
RadixSortPass ==
    /\ sort_pc = "sort"
    /\ pass < Len(RadixBitOffsets)
    /\ LET bit_offset == RadixBitOffsets[pass + 1] IN
       IF keys_in_a
       THEN /\ sort_keys_b' = radix_scatter(sort_keys_a, sort_keys_a, bit_offset)
            /\ sort_values_b' = radix_scatter(sort_values_a, sort_keys_a, bit_offset)
            /\ UNCHANGED <<sort_keys_a, sort_values_a>>
       ELSE /\ sort_keys_a' = radix_scatter(sort_keys_b, sort_keys_b, bit_offset)
            /\ sort_values_a' = radix_scatter(sort_values_b, sort_keys_b, bit_offset)
            /\ UNCHANGED <<sort_keys_b, sort_values_b>>
    /\ keys_in_a' = ~keys_in_a
    /\ pass' = pass + 1
    /\ sort_pc' = (IF pass + 1 = Len(RadixBitOffsets) THEN "rasterize" ELSE "sort")
    /\ UNCHANGED <<main_vars, scene, emitted, framebuffer, reference>>

sorted_keys == IF keys_in_a THEN sort_keys_a ELSE sort_keys_b
sorted_values == IF keys_in_a THEN sort_values_a ELSE sort_values_b

\* rasterize_tiles: every tile blends the values of its range of the sorted buffer
RasterizeTiles ==
    /\ sort_pc = "rasterize"
    /\ framebuffer' = [t \in SortTileIds |->
           tile_pixel(sorted_values, tile_offsets(t) + 1, tile_offsets(t) + tile_counts(t),
                      2^(Cardinality(SortSplatIds) - 1))]
    /\ sort_pc' = "rendered"
    /\ UNCHANGED <<main_vars, scene, sort_keys_a, sort_values_a, sort_keys_b, sort_values_b,
                   keys_in_a, pass, emitted, reference>>

\* the host copies framebuffer_slice: the first render is the reference, and the same
\* scene is rendered again
ReadFramebuffer ==
    /\ sort_pc = "rendered"
    /\ reference' = (IF reference = <<>> THEN <<framebuffer>> ELSE reference)
    /\ sort_pc' = "emit"
    /\ UNCHANGED <<main_vars, scene, sort_keys_a, sort_values_a, sort_keys_b, sort_values_b,
                   keys_in_a, pass, emitted, framebuffer>>

SortNext ==
    \/ EmitTileKeys
    \/ RadixSortPass
    \/ RasterizeTiles
    \/ ReadFramebuffer

SortSpec == SortInit /\ [][SortNext]_vars

\* C9: for a fixed scene every render yields the framebuffer of the first render,
\* whatever slots the emitting threads obtained.  (The statement of the specification;
\* two overlaps of one tile with equal depth and equal low index bits have equal keys.)
C9_RendersAreIdentical ==
    (sort_pc = "rendered" /\ reference # <<>>) => framebuffer = reference[1]

\* C10: after the four passes the sorted (key, value) pairs are a permutation of the
\* emitted pairs, the keys are in non-decreasing order, every tile's entries fill
\* exactly the range given by tile_offsets, and within a tile depth does not decrease.
C10_SortedByTileThenDepth ==
    sort_pc \in {"rasterize", "rendered"} =>
        LET n == Len(emitted)
            sorted == [p \in 1..n |-> [key |-> sorted_keys[p], value |-> sorted_values[p]]]
        IN /\ Len(sorted_keys) = n
           /\ Len(sorted_values) = n
           /\ \A p \in 1..n :
                Cardinality({q \in 1..n : sorted[q] = sorted[p]})
                    = Cardinality({q \in 1..n : emitted[q] = sorted[p]})
           /\ \A p, q \in 1..n : p < q => sorted_keys[p] <= sorted_keys[q]
           /\ \A p \in 1..n :
                LET t == key_tile(sorted_keys[p])
                IN  tile_offsets(t) < p /\ p <= tile_offsets(t) + tile_counts(t)
           /\ \A p, q \in 1..n :
                (p < q /\ key_tile(sorted_keys[p]) = key_tile(sorted_keys[q]))
                    => key_depth(sorted_keys[p]) <= key_depth(sorted_keys[q])

C10_Witness ==
    /\ sort_pc = "rendered"
    /\ Len(emitted) >= 4
    /\ \E p, q \in 1..Len(emitted) : p < q /\ emitted[p].key > emitted[q].key
    /\ \E p, q \in 1..Len(emitted) : key_tile(emitted[p].key) # key_tile(emitted[q].key)
    /\ \A p \in 1..(Len(sorted_keys) - 1) : sorted_keys[p] <= sorted_keys[p + 1]

\* C38: the sort runs exactly four passes, the pass numbered k (from 0) ordering by the
\* byte at bit offset 8k; each pass reads the buffer pair the pass before it wrote (the
\* emitted pair for the first) and leaves it untouched, and writes the other pair; after
\* the fourth pass the rasterizer is bound to the pair the keys were emitted into.
C38_FourPassesPingPong ==
    /\ [](/\ pass <= 4
          /\ (sort_pc = "sort" => (pass < 4 /\ keys_in_a = (pass % 2 = 0)))
          /\ (sort_pc \in {"rasterize", "rendered"} =>
                 /\ pass = 4
                 /\ keys_in_a
                 /\ sorted_keys = sort_keys_a
                 /\ sorted_values = sort_values_a))
    /\ [][pass' = pass + 1 =>
            LET digit(key) == (key \div 2 ^ (8 * pass)) % RADIX_BUCKETS
                keys_in == IF keys_in_a THEN sort_keys_a ELSE sort_keys_b
                values_in == IF keys_in_a THEN sort_values_a ELSE sort_values_b
                keys_out == IF keys_in_a THEN sort_keys_b' ELSE sort_keys_a'
                values_out == IF keys_in_a THEN sort_values_b' ELSE sort_values_a'
                n == Len(keys_in)
            IN /\ keys_in_a' = ~keys_in_a
               /\ (pass = 0 => keys_in_a /\ keys_in = [p \in 1..n |-> emitted[p].key])
               /\ (IF keys_in_a THEN UNCHANGED <<sort_keys_a, sort_values_a>>
                                 ELSE UNCHANGED <<sort_keys_b, sort_values_b>>)
               /\ Len(keys_out) = n
               /\ Len(values_out) = n
               \* the output is in the order of this pass's digit, and the entries of
               \* each digit are those of the input, in the input's order
               /\ \A p, q \in 1..n : p < q => digit(keys_out[p]) <= digit(keys_out[q])
               /\ \A d \in {digit(keys_in[p]) : p \in 1..n} \cup {digit(keys_out[p]) : p \in 1..n} :
                     LET of_digit(keys, values) ==
                             SelectSeq([p \in 1..n |-> <<keys[p], values[p]>>],
                                       LAMBDA entry : digit(entry[1]) = d)
                     IN  of_digit(keys_out, values_out) = of_digit(keys_in, values_in)]_vars

\* the four passes have run over keys that were emitted out of order, and both buffer
\* pairs were written
C38_Witness ==
    /\ sort_pc = "rasterize"
    /\ pass = 4
    /\ keys_in_a
    /\ Len(sort_keys_a) >= 3
    /\ sort_keys_a # [p \in 1..Len(emitted) |-> emitted[p].key]
    /\ sort_keys_b # sort_keys_a
    /\ sort_keys_b # <<>>

(***************************************************************************)
(* The CPU rasterizer, rasterize_splats: the rows are cut into bands, each *)
(* splat is binned into the bands its rows touch, and the bands are worked *)
(* on in parallel.  Alpha is kept in fixed point, ALPHA_ONE standing for   *)
(* 1.0; one colour channel is kept per pixel.                              *)
(***************************************************************************)
MaxWidth == 2
MaxHeight == 3
MaxThreads == 2

ALPHA_ONE == 10000
SATURATION_EPSILON == 9990
MIN_GAUSSIAN_CONTRIBUTION == 10
MIN_BLEND_WEIGHT == 1
DEPTH_INFINITY == 1000

Min(a, b) == IF a <= b THEN a ELSE b
div_ceil(a, b) == (a + b - 1) \div b

\* math::clamp_u8
clamp_u8(v) == Max(0, Min(v, 255))

blend_component(existing, new, weight) == clamp_u8(existing + (new * weight) \div ALPHA_ONE)

\* mutant of accumulate_alpha: the sum is stored as it is
accumulate_alpha_unclamped(existing_alpha, weight) == existing_alpha + weight

\* `(existing_alpha + weight).min(1.0)`
accumulate_alpha(existing_alpha, weight) == Min(existing_alpha + weight, ALPHA_ONE)

\* mutant of is_saturated: only a full pixel is skipped
is_saturated_only_when_full(existing_alpha) == existing_alpha >= ALPHA_ONE

\* `if existing_alpha >= SATURATION_EPSILON { continue; }`
is_saturated(existing_alpha) == existing_alpha >= SATURATION_EPSILON

\* the body of the innermost loop: what one splat does to one pixel [color, alpha, depth]
blend_pixel(pixel, splat) ==
    LET existing_alpha == pixel.alpha
        alpha == (splat.opacity * splat.gaussian) \div ALPHA_ONE
        weight == (alpha * (ALPHA_ONE - existing_alpha)) \div ALPHA_ONE
        new_alpha == accumulate_alpha(existing_alpha, weight)
    IN  IF \/ is_saturated(existing_alpha)
           \/ splat.gaussian < MIN_GAUSSIAN_CONTRIBUTION
           \/ alpha <= 0
           \/ weight < MIN_BLEND_WEIGHT
        THEN pixel
        ELSE [color |-> blend_component(pixel.color, splat.color, weight),
              alpha |-> new_alpha,
              depth |-> IF new_alpha >= SATURATION_EPSILON THEN splat.depth ELSE pixel.depth]

band_height == div_ceil(height, num_threads)
actual_bands == div_ceil(height, band_height)
Bands == 0..(actual_bands - 1)

\* rows of a splat's box, clamped to the screen
splat_min_y(splat) == Max(splat.screen_y - splat.radius_y, 0)
splat_max_y(splat) == Min(splat.screen_y + splat.radius_y, height - 1)

band_start(splat) == splat_min_y(splat) \div band_height

\* mutant of band_end: a splat is binned into the band of its first row only
band_end_first_band_only(splat) == band_start(splat)

band_end(splat) == Min(splat_max_y(splat) \div band_height, actual_bands - 1)

\* phase 1: the bin of a band, the indices of the splats whose rows touch it, in order
RECURSIVE bin_upto(_, _)
bin_upto(band_idx, si) ==
    IF si = 0 THEN <<>>
    ELSE LET splat == projected_splats[si]
         IN  IF band_start(splat) <= band_idx /\ band_idx <= band_end(splat)
             THEN Append(bin_upto(band_idx, si - 1), si)
             ELSE bin_upto(band_idx, si - 1)
bin(band_idx) == bin_upto(band_idx, Len(projected_splats))

\* chunks_mut(band_height * width): where the chunk of a band starts and how long it is
chunk_start(band_idx) == band_idx * band_height * width
chunk_len(band_idx) == Min(band_height * width, width * height - chunk_start(band_idx))

y_start(band_idx) == band_idx * band_height
band_rows(band_idx) == chunk_len(band_idx) \div width

\* mutant of y_end: the band reaches one row into the next band
y_end_past_band(band_idx) == y_start(band_idx) + band_rows(band_idx) + 1

y_end(band_idx) == y_start(band_idx) + band_rows(band_idx)

\* the pixels (indices into the whole buffers) a band's worker touches for one splat
band_pixels(band_idx, splat) ==
    LET min_y == Max(splat.screen_y - splat.radius_y, y_start(band_idx))
        max_y == Min(splat.screen_y + splat.radius_y, y_end(band_idx) - 1)
    IN  {chunk_start(band_idx) + (y - y_start(band_idx)) * width + x :
            y \in min_y..max_y, x \in 0..(width - 1)} \cap (0..(width * height - 1))

pixel_at(idx) ==
    [color |-> render_framebuffer[idx], alpha |-> alpha_buffer[idx], depth |-> depth_buffer[idx]]

RasterSplats ==
    {[screen_y |-> y, radius_y |-> r, opacity |-> a[1], gaussian |-> a[2],
      color |-> c[1], depth |-> c[2]] :
        y \in 0..(MaxHeight - 1), r \in 0..1,
        a \in {<<0, 9000>>, <<6000, 9000>>, <<ALPHA_ONE, 11000>>, <<ALPHA_ONE, 9995>>,
              <<ALPHA_ONE, 5>>},
        c \in {<<200, 1>>, <<100, 2>>}}

\* resize_render_state and clear_framebuffer, then the call of rasterize_splats
RasterInit ==
    /\ MainInit
    /\ caller = "frame_loop"
    /\ backend = "Cpu"
    /\ splat_count = MaxSplats
    /\ SortIdle
    /\ PureIdle
    /\ SizeIdle
    /\ InputIdle
    /\ width \in 1..MaxWidth
    /\ height \in 1..MaxHeight
    /\ num_threads \in 1..MaxThreads
    /\ \E first, second \in RasterSplats :
         /\ first.screen_y < height
         /\ second.screen_y < height
         /\ first.depth = 1
         /\ second.depth = 2
         /\ projected_splats = <<first, second>>
    /\ render_framebuffer = [idx \in 0..(width * height - 1) |-> 0]
    /\ alpha_buffer = [idx \in 0..(width * height - 1) |-> 0]
    /\ depth_buffer = [idx \in 0..(width * height - 1) |-> DEPTH_INFINITY]
    /\ band_next = [b \in 0..(div_ceil(height, div_ceil(height, num_threads)) - 1) |-> 1]
    /\ band_writers = [idx \in 0..(width * height - 1) |-> {}]
    /\ band_order = <<>>

\* the worker of one band takes the next splat of its bin and blends it into its rows
BandBlend(band_idx) ==
    /\ band_next[band_idx] <= Len(bin(band_idx))
    /\ LET splat == projected_splats[bin(band_idx)[band_next[band_idx]]]
           touched == band_pixels(band_idx, splat)
           after(idx) == IF idx \in touched THEN blend_pixel(pixel_at(idx), splat)
                         ELSE pixel_at(idx)
       IN /\ render_framebuffer' = [idx \in DOMAIN render_framebuffer |-> after(idx).color]
          /\ alpha_buffer' = [idx \in DOMAIN alpha_buffer |-> after(idx).alpha]
          /\ depth_buffer' = [idx \in DOMAIN depth_buffer |-> after(idx).depth]
          /\ band_writers' = [idx \in DOMAIN band_writers |->
                IF idx \in touched /\ after(idx) # pixel_at(idx)
                THEN band_writers[idx] \cup {band_idx} ELSE band_writers[idx]]
    /\ band_next' = [band_next EXCEPT ![band_idx] = @ + 1]
    /\ band_order' = Append(band_order, band_idx)
    /\ UNCHANGED <<caller, splat_count, backend_vars, app_vars, frame_vars, call_vars, hist_vars,
                   sort_vars, pure_vars, size_vars, input_vars, width, height, num_threads,
                   projected_splats>>

RasterNext == \E band_idx \in Bands : BandBlend(band_idx)

RasterSpec == RasterInit /\ [][RasterNext]_vars

RasterDone == \A b \in Bands : band_next[b] > Len(bin(b))

\* C11: every pixel's accumulated alpha starts in [0, 1], stays in [0, 1] and does not
\* decrease in any blend step of the frame.
C11_AlphaBoundedMonotone ==
    /\ \A idx \in DOMAIN alpha_buffer : alpha_buffer[idx] = 0
    /\ [][\A idx \in DOMAIN alpha_buffer :
            /\ alpha_buffer'[idx] >= alpha_buffer[idx]
            /\ 0 <= alpha_buffer'[idx]
            /\ alpha_buffer'[idx] <= ALPHA_ONE]_vars

C11_Witness ==
    /\ height >= 1
    /\ \E idx \in DOMAIN alpha_buffer :
         /\ alpha_buffer[idx] = ALPHA_ONE
         /\ render_framebuffer[idx] > 0
    /\ \E idx \in DOMAIN alpha_buffer :
         alpha_buffer[idx] > 0 /\ alpha_buffer[idx] < SATURATION_EPSILON

\* C28: a pixel whose accumulated alpha has reached SATURATION_EPSILON keeps its colour,
\* alpha and depth through every later blend step of the frame, and a pixel's depth
\* changes only in the step that takes its alpha from below SATURATION_EPSILON to
\* at least SATURATION_EPSILON.
C28_SaturatedPixelFrozen ==
    [][\A idx \in DOMAIN alpha_buffer :
          /\ alpha_buffer[idx] >= SATURATION_EPSILON =>
                /\ render_framebuffer'[idx] = render_framebuffer[idx]
                /\ alpha_buffer'[idx] = alpha_buffer[idx]
                /\ depth_buffer'[idx] = depth_buffer[idx]
          /\ depth_buffer'[idx] # depth_buffer[idx] =>
                /\ alpha_buffer[idx] < SATURATION_EPSILON
                /\ alpha_buffer'[idx] >= SATURATION_EPSILON]_vars

\* a pixel saturated below 1.0 by the first splat, after the second, visible splat
\* has been worked on over it
C28_Witness ==
    \E band_idx \in Bands : \E idx \in DOMAIN alpha_buffer :
        /\ band_next[band_idx] = 3
        /\ idx \in band_pixels(band_idx, projected_splats[1])
        /\ idx \in band_pixels(band_idx, projected_splats[2])
        /\ projected_splats[2].opacity = 6000
        /\ alpha_buffer[idx] >= SATURATION_EPSILON
        /\ alpha_buffer[idx] < ALPHA_ONE
        /\ depth_buffer[idx] = projected_splats[1].depth
        /\ render_framebuffer[idx] = blend_component(0, projected_splats[1].color, ALPHA_ONE - 5)

\* the rows a band owns
BandRows(band_idx) == y_start(band_idx)..(y_end(band_idx) - 1)

cleared_pixels ==
    [idx \in 0..(width * height - 1) |-> [color |-> 0, alpha |-> 0, depth |-> DEPTH_INFINITY]]

\* C29: every splat is in the bin of exactly the bands its box overlaps, every bin is in
\* splat order, and when all workers are done the colour, alpha and depth buffers equal
\* those of blending all splats one after the other, in order, over the whole image.
C29_BandedEqualsSequential ==
    LET image_pixels(splat) ==
            {y * width + x :
                y \in splat_min_y(splat)..splat_max_y(splat), x \in 0..(width - 1)}
        RECURSIVE rasterize_sequential(_, _)
        rasterize_sequential(pixels, k) ==
            IF k = 0 THEN pixels
            ELSE LET before == rasterize_sequential(pixels, k - 1)
                 IN  [idx \in DOMAIN pixels |->
                        IF idx \in image_pixels(projected_splats[k])
                        THEN blend_pixel(before[idx], projected_splats[k])
                        ELSE before[idx]]
    IN  /\ \A band_idx \in Bands : \A si \in 1..Len(projected_splats) :
              (\E p \in 1..Len(bin(band_idx)) : bin(band_idx)[p] = si)
                 <=> (BandRows(band_idx)
                        \cap (splat_min_y(projected_splats[si])
                                ..splat_max_y(projected_splats[si]))
                        # {})
        /\ \A band_idx \in Bands : \A p, q \in 1..Len(bin(band_idx)) :
              p < q => bin(band_idx)[p] < bin(band_idx)[q]
        /\ RasterDone =>
             \A idx \in DOMAIN alpha_buffer :
                pixel_at(idx)
                    = rasterize_sequential(cleared_pixels, Len(projected_splats))[idx]

\* both splats lie across the border of two bands and both have left their mark in
\* each of the two bands
C29_Witness ==
    /\ RasterDone
    /\ actual_bands >= 2
    /\ \E b1, b2 \in Bands :
         /\ b1 # b2
         /\ Len(bin(b1)) = 2
         /\ Len(bin(b2)) = 2
         /\ \E i1 \in band_pixels(b1, projected_splats[2]) :
               /\ alpha_buffer[i1] > 6000
               /\ alpha_buffer[i1] < SATURATION_EPSILON
         /\ \E i2 \in band_pixels(b2, projected_splats[2]) :
               /\ alpha_buffer[i2] > 6000
               /\ alpha_buffer[i2] < SATURATION_EPSILON

\* C13: the bands own pairwise disjoint row ranges that cover all rows, no pixel is
\* written by two workers, and when all workers are done the colour, alpha and depth
\* buffers are what running the bands one after the other gives, whatever the
\* interleaving was.
C13_BandsDisjointAndCommute ==
    LET apply_splat(pixels, band_idx, splat) ==
            [idx \in DOMAIN pixels |->
                IF idx \in band_pixels(band_idx, splat) THEN blend_pixel(pixels[idx], splat)
                ELSE pixels[idx]]
        RECURSIVE run_band(_, _, _)
        run_band(pixels, band_idx, k) ==
            IF k = 0 THEN pixels
            ELSE apply_splat(run_band(pixels, band_idx, k - 1), band_idx,
                             projected_splats[bin(band_idx)[k]])
        RECURSIVE run_bands(_, _)
        run_bands(pixels, n) ==
            IF n = 0 THEN pixels
            ELSE run_band(run_bands(pixels, n - 1), n - 1, Len(bin(n - 1)))
    IN
    /\ \A b1, b2 \in Bands : b1 # b2 => BandRows(b1) \cap BandRows(b2) = {}
    /\ UNION {BandRows(b) : b \in Bands} = 0..(height - 1)
    /\ \A idx \in DOMAIN band_writers : Cardinality(band_writers[idx]) <= 1
    /\ RasterDone =>
         \A idx \in DOMAIN alpha_buffer :
            pixel_at(idx) = run_bands(cleared_pixels, actual_bands)[idx]

C13_Witness ==
    /\ RasterDone
    /\ actual_bands >= 2
    /\ Len(band_order) >= 3
    /\ band_order[1] # 0
    /\ \E si \in 1..Len(projected_splats) :
         Cardinality({b \in Bands : \E k \in 1..Len(bin(b)) : bin(b)[k] = si}) >= 2
    /\ \E i1, i2 \in DOMAIN band_writers :
         /\ band_writers[i1] # {}
         /\ band_writers[i2] # {}
         /\ band_writers[i1] # band_writers[i2]

(***************************************************************************)
(* Functions of the CPU path that take an input and return a value: the    *)
(* depth sorter and the scene loaders.  One call is drawn, then it runs.   *)
(***************************************************************************)
MaxSortLen == 3

\* an f32 that is NaN
NAN == -1

\* f32::partial_cmp
partial_cmp(a, b) ==
    IF a = NAN \/ b = NAN THEN "None"
    ELSE IF a < b THEN "Less"
    ELSE IF a > b THEN "Greater"
    ELSE "Equal"

\* mutant of depth_cmp: the operands are swapped
depth_cmp_swapped(a, b) ==
    IF partial_cmp(b.depth, a.depth) = "None" THEN "Equal" ELSE partial_cmp(b.depth, a.depth)

\* the closure of sort_by_depth: `a.depth.partial_cmp(&b.depth).unwrap_or(Equal)`
depth_cmp(a, b) ==
    IF partial_cmp(a.depth, b.depth) = "None" THEN "Equal" ELSE partial_cmp(a.depth, b.depth)

\* par_sort_unstable_by on a short slice: insertion sort driven by the closure; the
\* element moves left past every element it is Less than
RECURSIVE insert_tail(_, _)
insert_tail(sorted, x) ==
    IF sorted = <<>> THEN <<x>>
    ELSE LET last == sorted[Len(sorted)]
         IN  IF depth_cmp(x, last) = "Less"
             THEN Append(insert_tail(SubSeq(sorted, 1, Len(sorted) - 1), x), last)
             ELSE Append(sorted, x)

RECURSIVE sort_prefix(_, _)
sort_prefix(splats, n) ==
    IF n = 0 THEN <<>> ELSE insert_tail(sort_prefix(splats, n - 1), splats[n])

sort_by_depth(splats) == sort_prefix(splats, Len(splats))

(***************************************************************************)
(* The scene loaders.  A scale is kept in fixed point, in units of 1e-5.   *)
(* Of a file only its length and the raw scales of its complete records    *)
(* are kept.                                                               *)
(***************************************************************************)
MaxFileLen == 64
RECORD_SIZE == 32

\* 1e-4, the floor of a scale
SCALE_FLOOR == 10
\* the scale of a PLY vertex without scale properties, 0.05
PLY_DEFAULT_SCALE == 5000
\* the raw scale of a PLY vertex for a scale property the header lacks, -3.0
PLY_DEFAULT_SCALE_RAW == -300000

\* f32::exp on the raw scales, rounded to the unit
f32_exp(v) ==
    CASE v = NAN -> NAN
      [] v = -2000000 -> 0
      [] v = -300000 -> 4979
      [] v = 0 -> 100000
      [] v = 1 -> 100001
      [] v = 10 -> 100010
      [] v = 5000 -> 105127

\* f32::max: a NaN operand is ignored
f32_max(a, b) == IF a = NAN THEN b ELSE IF b = NAN THEN a ELSE Max(a, b)

\* dot_splat.rs decode_scale_value
decode_scale_value(v) ==
    IF v # NAN /\ v > 0 THEN v ELSE f32_max(f32_exp(v), SCALE_FLOOR)

\* dot_splat.rs load_splat_file
load_splat_file(file) ==
    IF file.len % RECORD_SIZE # 0
    THEN [kind |-> "error", message |-> "not a multiple of 32 bytes"]
    ELSE IF file.len < 32
    THEN [kind |-> "error", message |-> "file too small"]
    ELSE [kind |-> "loaded",
          splats |-> [i \in 1..(file.len \div RECORD_SIZE) |->
                        [scale |-> [c \in 1..3 |-> decode_scale_value(file.scale_raw[i][c])]]]]

\* ply.rs load_ply_file, the scale of each vertex
load_ply_file(vertices) ==
    [kind |-> "loaded",
     splats |-> [i \in DOMAIN vertices |->
                   [scale |-> IF vertices[i].have_scale
                              THEN [c \in 1..3 |-> f32_max(f32_exp(vertices[i].scale_raw[c]),
                                                           SCALE_FLOOR)]
                              ELSE [c \in 1..3 |-> PLY_DEFAULT_SCALE]]]]

\* the calls: sort_by_depth on up to MaxSortLen depths; load_splat_file on a file of up
\* to MaxFileLen bytes and load_ply_file on up to one vertex, with the raw scales NaN,
\* -20.0, -3.0, 0.0, 1e-5, 1e-4 and 0.05; the key of the first or last tile of a screen
\* around the tile limit (1, 1023, 1023, 1024, 1024 and 1025 tiles, and an empty screen);
\* stage A on a grid of one tile, one, two and four scan blocks, where a splat covers a
\* run of tiles first..last, or none when first > last
PureCalls ==
    LET SortDepthValues == {1, 2, 3, NAN}
        SortInputs == UNION {[1..n -> SortDepthValues] : n \in 0..MaxSortLen}
        SortCalls ==
            {[op |-> "sort_by_depth",
              projected_splats |->
                  [i \in DOMAIN depths |-> [depth |-> depths[i], original_index |-> i]]] :
                depths \in SortInputs}
        RawScales == {NAN, -2000000, PLY_DEFAULT_SCALE_RAW, 0, 1, 10, 5000}
        ScaleTriples == {<<x, PLY_DEFAULT_SCALE_RAW, z>> : x, z \in RawScales}
        SplatFiles ==
            {[len |-> n, scale_raw |-> records] :
                n \in 0..MaxFileLen, records \in UNION {[1..k -> ScaleTriples] : k \in 0..2}}
        LoadSplatCalls ==
            {[op |-> "load_splat_file", file |-> f] :
                f \in {g \in SplatFiles : Len(g.scale_raw) = g.len \div RECORD_SIZE}}
        PlyVertices ==
            {[have_scale |-> TRUE, scale_raw |-> t] : t \in ScaleTriples}
                \cup {[have_scale |-> FALSE,
                       scale_raw |-> <<PLY_DEFAULT_SCALE_RAW, PLY_DEFAULT_SCALE_RAW,
                                       PLY_DEFAULT_SCALE_RAW>>]}
        LoadPlyCalls ==
            {[op |-> "load_ply_file", vertices |-> v] :
                v \in UNION {[1..k -> PlyVertices] : k \in 0..1}}
        RenderSizes == {<<16, 16>>, <<16368, 1>>, <<496, 528>>, <<16369, 1>>, <<512, 512>>,
                        <<16385, 1>>, <<0, 16>>}
        EmitKeyCalls ==
            {[op |-> "render_emit", screen_width |-> size[1], screen_height |-> size[2],
              last_tile |-> last, depth |-> depth, index |-> index] :
                size \in RenderSizes, last \in BOOLEAN, depth \in {0, 2^DEPTH_BITS - 1},
                index \in {0, 2^TIE_BITS - 1, 2^TIE_BITS}}
        ScanTileCounts == {1, 256, 257, 1023}
        ScanRuns == {<<1, 0>>, <<0, 0>>, <<0, 1022>>, <<511, 1022>>, <<1022, 1022>>}
        StageACalls ==
            {[op |-> "stage_a", num_tiles |-> n, splats |-> <<a, b>>] :
                n \in ScanTileCounts, a \in ScanRuns, b \in ScanRuns}
        ScanCalls ==
            {[op |-> "prefix_scan", count |-> n, block_sums_capacity |-> c] :
                n \in {0, 1, 256, 257, 1023} \cup {256 ^ k + d : k \in 2..MaxScanLevels, d \in {0, 1, 256}},
                c \in {1, 2, 258}}
    IN  SortCalls \cup LoadSplatCalls \cup LoadPlyCalls \cup EmitKeyCalls \cup StageACalls
            \cup ScanCalls

PureInit ==
    /\ MainInit
    /\ caller = "frame_loop"
    /\ backend = "Cpu"
    /\ splat_count = MaxSplats
    /\ SortIdle
    /\ RasterIdle
    /\ SizeIdle
    /\ InputIdle
    /\ call \in PureCalls
    /\ returned = [kind |-> "pending"]

PureUnchanged ==
    UNCHANGED <<caller, splat_count, backend_vars, app_vars, frame_vars, call_vars, hist_vars,
                sort_vars, raster_vars, size_vars, input_vars, call>>

SortByDepth ==
    /\ call.op = "sort_by_depth"
    /\ returned.kind = "pending"
    /\ returned' = [kind |-> "sorted", projected_splats |-> sort_by_depth(call.projected_splats)]
    /\ PureUnchanged

LoadSplatFile ==
    /\ call.op = "load_splat_file"
    /\ returned.kind = "pending"
    /\ returned' = load_splat_file(call.file)
    /\ PureUnchanged

LoadPlyFile ==
    /\ call.op = "load_ply_file"
    /\ returned.kind = "pending"
    /\ returned' = load_ply_file(call.vertices)
    /\ PureUnchanged

TILE_SIZE == 16

\* render: tile_count_x * tile_count_y
num_tiles(w, h) == Max(div_ceil(w, TILE_SIZE), 1) * Max(div_ceil(h, TILE_SIZE), 1)

\* mutant of render_precondition: the tile limit is not checked
render_precondition_no_tile_limit(disabled, uploaded, w, h, count, limit) ==
    IF gpu_guard(disabled) THEN "GpuDisabled"
    ELSE IF ~uploaded THEN "NotUploaded"
    ELSE IF w = 0 \/ h = 0 THEN "ZeroSize"
    ELSE IF count > limit THEN "TooManySplats"
    ELSE "Pass"

\* render: the checks made before any buffer is touched, in the order of the code
render_precondition(disabled, uploaded, w, h, count, limit) ==
    IF gpu_guard(disabled) THEN "GpuDisabled"
    ELSE IF ~uploaded THEN "NotUploaded"
    ELSE IF w = 0 \/ h = 0 THEN "ZeroSize"
    ELSE IF count > limit THEN "TooManySplats"
    ELSE IF num_tiles(w, h) > MAX_TILES THEN "TooManyTiles"
    ELSE "Pass"

\* render up to its preconditions, then emit_tile_keys packing the key of one tile of the
\* grid; the key is kept as its tile field and the 22 bits below it
RenderEmit ==
    /\ call.op = "render_emit"
    /\ returned.kind = "pending"
    /\ LET checked == render_precondition(FALSE, TRUE, call.screen_width, call.screen_height,
                                          splat_count, max_splats)
           tile == IF call.last_tile
                   THEN num_tiles(call.screen_width, call.screen_height) - 1 ELSE 0
       IN returned' = IF checked = "Pass"
                      THEN [kind |-> "Pass", tile |-> tile,
                            tile_field |-> key_tile_field(tile),
                            low_bits |-> key_low_bits(call.depth, call.index)]
                      ELSE [kind |-> checked]
    /\ PureUnchanged

THREADS_PER_GROUP_1D == 256

\* count_tile_overlaps: every splat adds one to the count of each tile it covers
count_tile_overlaps(splats, n) ==
    [t \in 0..(n - 1) |->
        Cardinality({i \in DOMAIN splats : splats[i][1] <= t /\ t <= Min(splats[i][2], n - 1)})]

\* count_tile_overlaps: and one to total_overlaps for each such tile
count_total_overlaps(splats, n) ==
    LET covered(i) == Min(splats[i][2], n - 1) - splats[i][1] + 1
        RECURSIVE upto(_)
        upto(k) == IF k = 0 THEN 0 ELSE Max(covered(k), 0) + upto(k - 1)
    IN upto(Len(splats))

RECURSIVE range_sum(_, _, _)
range_sum(data, first, last) ==
    IF first > last THEN 0
    ELSE IF first = last THEN data[first]
    ELSE LET mid == (first + last) \div 2
         IN range_sum(data, first, mid) + range_sum(data, mid + 1, last)

\* prefix_scan_blocks: each threadgroup scans its block of 256 elements (exclusive) and
\* writes the block's total to block_sums
prefix_scan_blocks(data, count) ==
    LET block_first(i) == (i \div THREADS_PER_GROUP_1D) * THREADS_PER_GROUP_1D
        num_blocks == div_ceil(count, THREADS_PER_GROUP_1D)
    IN [data |-> [i \in DOMAIN data |->
                    IF i < count THEN range_sum(data, block_first(i), i - 1) ELSE data[i]],
        block_sums |-> [b \in 0..(num_blocks - 1) |->
                          range_sum(data, b * THREADS_PER_GROUP_1D,
                                    Min((b + 1) * THREADS_PER_GROUP_1D, count) - 1)]]

\* prefix_scan_add_offsets: every element gets the scanned sum of the blocks before its own
prefix_scan_add_offsets(data, block_sums, count) ==
    [i \in DOMAIN data |->
        IF i < count THEN data[i] + block_sums[i \div THREADS_PER_GROUP_1D] ELSE data[i]]

\* mutant of encode_prefix_scan_recursive: the block sums are not carried into later blocks
encode_prefix_scan_one_level(data, count) ==
    IF count = 0 THEN data ELSE prefix_scan_blocks(data, count).data

\* sort.rs encode_prefix_scan_recursive: the passes it encodes, applied to the first
\* `count` elements of `data`
RECURSIVE encode_prefix_scan_recursive(_, _)
encode_prefix_scan_recursive(data, count) ==
    IF count = 0 THEN data
    ELSE LET num_blocks == div_ceil(count, THREADS_PER_GROUP_1D)
             scanned == prefix_scan_blocks(data, count)
         IN IF num_blocks > 1
            THEN prefix_scan_add_offsets(
                     scanned.data,
                     encode_prefix_scan_recursive(scanned.block_sums, num_blocks), count)
            ELSE scanned.data

\* render.rs run_single_render_attempt, stage A after projection: count, the two copies
\* into tile_offsets, the scan of its first num_tiles entries
StageA ==
    /\ call.op = "stage_a"
    /\ returned.kind = "pending"
    /\ LET n == call.num_tiles
           counts == count_tile_overlaps(call.splats, n)
           total == count_total_overlaps(call.splats, n)
           copied == [i \in 0..n |-> IF i < n THEN counts[i] ELSE total]
       IN returned' = [kind |-> "scanned", tile_counts |-> counts, total_overlaps |-> total,
                       tile_offsets |-> encode_prefix_scan_recursive(copied, n)]
    /\ PureUnchanged

\* mutant of required_block_sum_elements: only the block sums of the data are counted
required_block_sum_elements_first_level(count) ==
    Max(div_ceil(count, THREADS_PER_GROUP_1D), 1)

\* buffers.rs required_block_sum_elements
required_block_sum_elements(count) ==
    LET RECURSIVE add_levels(_)
        add_levels(blocks) ==
            blocks + (IF blocks <= 1 THEN 0
                      ELSE add_levels(div_ceil(blocks, THREADS_PER_GROUP_1D)))
    IN  IF count = 0 THEN 1 ELSE Max(add_levels(div_ceil(count, THREADS_PER_GROUP_1D)), 1)

\* buffers.rs ensure_block_sums_capacity_for_count: the new block_sums_capacity
ensure_block_sums_capacity_for_count(capacity, count) ==
    IF required_block_sum_elements(count) <= capacity
    THEN capacity ELSE required_block_sum_elements(count)

\* sort.rs encode_prefix_scan_recursive: the parts of block_sums its encoders are bound
\* to, level by level: num_blocks elements from scratch_offset_elems on
RECURSIVE encode_prefix_scan_scratch(_, _)
encode_prefix_scan_scratch(count, scratch_offset_elems) ==
    IF count = 0 THEN <<>>
    ELSE LET num_blocks == div_ceil(count, THREADS_PER_GROUP_1D)
             bound == <<[offset |-> scratch_offset_elems, num_blocks |-> num_blocks]>>
         IN IF num_blocks > 1
            THEN bound \o encode_prefix_scan_scratch(num_blocks,
                                                     scratch_offset_elems + num_blocks)
            ELSE bound

\* ensure_block_sums_capacity_for_count(count), then encode_prefix_scan_in_place(.., count)
EncodeScan ==
    /\ call.op = "prefix_scan"
    /\ returned.kind = "pending"
    /\ returned' = [kind |-> "encoded",
                    block_sums_capacity |->
                        ensure_block_sums_capacity_for_count(call.block_sums_capacity,
                                                             call.count),
                    scratch |-> encode_prefix_scan_scratch(call.count, 0)]
    /\ PureUnchanged

PureNext ==
    \/ SortByDepth
    \/ LoadSplatFile
    \/ LoadPlyFile
    \/ RenderEmit
    \/ StageA
    \/ EncodeScan

PureSpec == PureInit /\ [][PureNext]_vars

\* C39: for every element count, each part of block_sums that the recursive prefix scan
\* addresses, at every level, ends within required_block_sum_elements(count), and within
\* the block_sums_capacity ensured before the scan was encoded.
C39_ScanScratchWithinRequired ==
    (call.op = "prefix_scan" /\ returned.kind = "encoded") =>
        \A level \in DOMAIN returned.scratch :
            /\ returned.scratch[level].offset >= 0
            /\ returned.scratch[level].num_blocks >= 1
            /\ returned.scratch[level].offset + returned.scratch[level].num_blocks
                    <= required_block_sum_elements(call.count)
            /\ returned.scratch[level].offset + returned.scratch[level].num_blocks
                    <= returned.block_sums_capacity

\* a scan of three levels whose last level ends exactly at the required size, with
\* block_sums grown for it
C39_Witness ==
    /\ call.op = "prefix_scan"
    /\ returned.kind = "encoded"
    /\ Len(returned.scratch) = 3
    /\ returned.scratch[3].offset + returned.scratch[3].num_blocks
            = required_block_sum_elements(call.count)
    /\ returned.scratch[2].offset = returned.scratch[1].num_blocks
    /\ call.block_sums_capacity < returned.block_sums_capacity

C26_TileIdsFitKey ==
    returned.kind = "Pass" =>
        /\ num_tiles(call.screen_width, call.screen_height) <= MAX_TILES
        /\ returned.tile < 2^TILE_BITS
        /\ returned.tile_field = returned.tile
        /\ returned.low_bits < 2^(DEPTH_BITS + TIE_BITS)
        /\ returned.low_bits \div 2^TIE_BITS = call.depth

C26_Witness ==
    /\ returned.kind = "Pass"
    /\ call.screen_height > 1
    /\ returned.tile = MAX_TILES - 1
    /\ call.depth = 2^DEPTH_BITS - 1
    /\ call.index = 2^TIE_BITS - 1

\* C27: after stage A tile_offsets is the exclusive prefix sum of tile_counts: it starts
\* at 0, each entry is the one before plus that tile's count, and its final entry, the
\* sum of all counts, is total_overlaps.
C27_OffsetsArePrefixSum ==
    returned.kind = "scanned" =>
        LET n == call.num_tiles IN
        /\ DOMAIN returned.tile_offsets = 0..n
        /\ returned.tile_offsets[0] = 0
        /\ \A t \in 0..(n - 1) :
             returned.tile_offsets[t + 1] = returned.tile_offsets[t] + returned.tile_counts[t]
        /\ returned.tile_offsets[n] = returned.total_overlaps

C27_Witness ==
    /\ returned.kind = "scanned"
    /\ call.num_tiles = 1023
    /\ returned.tile_counts[0] = 2
    /\ returned.tile_counts[1022] = 1
    /\ returned.tile_offsets[1] = 2
    /\ returned.tile_offsets[768] > returned.tile_offsets[767]
    /\ returned.total_overlaps > 1023

\* C19: load_splat_file rejects every file of fewer than 32 bytes with "file too small".
\* (The statement of the specification; the length is first tested for being a
\* multiple of the record size.)
C19_SmallFileTooSmall ==
    (call.op = "load_splat_file" /\ returned.kind # "pending" /\ call.file.len < 32) =>
        returned = [kind |-> "error", message |-> "file too small"]

\* C20: every splat the loaders produce has all three scale components >= 1e-4.
\* (The statement of the specification; a positive raw scale of a .splat record is
\* taken as it is.)
C20_ScalesAtLeastFloor ==
    (call.op \in {"load_splat_file", "load_ply_file"} /\ returned.kind = "loaded") =>
        \A i \in DOMAIN returned.splats : \A c \in 1..3 :
            /\ returned.splats[i].scale[c] # NAN
            /\ returned.splats[i].scale[c] >= SCALE_FLOOR

(***************************************************************************)
(* MetalBackend::render seen for the screen size: the preconditions, the   *)
(* framebuffer that only grows, the empty scene, and what framebuffer_slice *)
(* hands out.  What the GPU attempts of a call end in is an input here.    *)
(***************************************************************************)
MaxRenders == 3

\* a width of 1024 tiles
WIDE_SCREEN == 16384
OtherError(message) == [kind |-> "Other", stage |-> NoStage, message |-> message]

\* mutant of ensure_framebuffer_capacity: the buffer is re-allocated to fit the screen
\* exactly, also when the screen got smaller
ensure_framebuffer_capacity_exact_fit(buffer, capacity, pixels) ==
    IF pixels # capacity
    THEN [framebuffer |-> [i \in 0..(pixels - 1) |-> 0], capacity |-> pixels]
    ELSE [framebuffer |-> buffer, capacity |-> capacity]

\* ensure_framebuffer_capacity: a larger buffer is allocated when the pixels do not fit
ensure_framebuffer_capacity(buffer, capacity, pixels) ==
    IF pixels > capacity
    THEN [framebuffer |-> [i \in 0..(pixels - 1) |-> 0], capacity |-> pixels]
    ELSE [framebuffer |-> buffer, capacity |-> capacity]

\* mutant of clear_framebuffer: nothing is written
clear_framebuffer_skipped(buffer, w, h) == buffer

\* clear_framebuffer, and the fill at the start of stage A: the first w * h pixels are zeroed
clear_framebuffer(buffer, w, h) ==
    IF w = 0 \/ h = 0 THEN buffer
    ELSE [i \in DOMAIN buffer |-> IF i < w * h THEN 0 ELSE buffer[i]]

\* what the kernels of frame `frame` leave in the pixel (x, y)
pixel_value(frame, x, y) == frame * 100 + y * 10 + x + 1

\* rasterize_tiles: every thread writes its pixel at y * width + x
write_frame(buffer, frame, w, h) ==
    [i \in DOMAIN buffer |->
        IF \E x \in 0..(w - 1), y \in 0..(h - 1) : i = y * w + x
        THEN LET xy == CHOOSE xy \in (0..(w - 1)) \X (0..(h - 1)) : i = xy[2] * w + xy[1]
             IN  pixel_value(frame, xy[1], xy[2])
        ELSE buffer[i]]

\* mutant of framebuffer_slice: the whole buffer is handed out
framebuffer_slice_whole_buffer(buffer, w, h) == buffer

\* framebuffer_slice: the first last_render_width * last_render_height pixels
framebuffer_slice(buffer, w, h) ==
    IF w * h = 0 THEN <<>> ELSE [i \in 0..(w * h - 1) |-> buffer[i]]

\* the image a successful render of `frame` shows, row by row
image_of(frame, w, h, count) ==
    IF w * h = 0 THEN <<>>
    ELSE [i \in 0..(w * h - 1) |-> IF count = 0 THEN 0 ELSE pixel_value(frame, i % w, i \div w)]

SizeInit ==
    /\ MainInit
    /\ caller = "direct"
    /\ splat_count = MaxSplats
    /\ RasterIdle
    /\ PureIdle
    /\ InputIdle
    /\ scene = [i \in SortSplatIds |-> [tiles |-> {}, depth |-> 0]]
    /\ sort_pc = "emit"
    /\ sort_keys_a = <<>>
    /\ sort_values_a = <<>>
    /\ sort_keys_b = <<>>
    /\ sort_values_b = <<>>
    /\ keys_in_a = TRUE
    /\ pass = 0
    /\ emitted = <<>>
    /\ reference = <<>>
    /\ framebuffer = [i \in 0..0 |-> 0]
    /\ screen_width = 0
    /\ screen_height = 0
    /\ max_splats \in 0..MaxSplats
    /\ splats_uploaded = FALSE
    /\ framebuffer_capacity_pixels = 1
    /\ last_render_width = 0
    /\ last_render_height = 0
    /\ frame_id = 0
    /\ expected_image = <<>>

SizeUnchanged ==
    UNCHANGED <<caller, app_vars, frame_vars, sort_capacity, previous_total_overlaps,
                frames_below_threshold, pc, attempt, total_overlaps, overflow_flag, stage_status,
                reads, in_flight, polls, stage_b, hist_vars, scene, sort_pc, sort_keys_a, sort_values_a, sort_keys_b,
                sort_values_b, keys_in_a, pass, emitted, reference, raster_vars, pure_vars,
                input_vars, max_splats>>

\* upload_splats with a slice of n splats
UploadSplats(n) ==
    /\ ~splats_uploaded
    /\ n <= max_splats
    /\ splats_uploaded' = TRUE
    /\ UNCHANGED <<splat_count, gpu_disabled, render_result, submits, framebuffer, screen_width,
                   screen_height, framebuffer_capacity_pixels, last_render_width,
                   last_render_height, frame_id, expected_image>>
    /\ SizeUnchanged

\* render(camera, w, h, count); `outcome` is what the attempts end in when they are made,
\* `wrote` whether stage B got to write pixels before a failure
RenderSized(w, h, count, outcome, wrote) ==
    /\ frame_id < MaxRenders
    /\ frame_id' = frame_id + 1
    /\ screen_width' = w
    /\ screen_height' = h
    /\ splat_count' = count
    /\ LET grown == ensure_framebuffer_capacity(framebuffer, framebuffer_capacity_pixels, w * h)
           filled == clear_framebuffer(grown.framebuffer, w, h)
           keep == [result |-> Result("Ok", NoStage), disabled |-> gpu_disabled,
                    buffer |-> framebuffer, capacity |-> framebuffer_capacity_pixels,
                    lw |-> last_render_width, lh |-> last_render_height, submits |-> 0]
           checked == render_precondition(gpu_disabled, splats_uploaded, w, h, count,
                                          max_splats)
           after ==
             IF checked = "GpuDisabled"
             THEN [keep EXCEPT !.result = Result("GpuDisabled", NoStage)]
             ELSE IF checked = "NotUploaded"
             THEN [keep EXCEPT !.result = OtherError("No splats uploaded to Metal backend")]
             ELSE IF checked = "ZeroSize"
             THEN [keep EXCEPT !.lw = w, !.lh = h]
             ELSE IF checked = "TooManySplats"
             THEN [keep EXCEPT !.result = OtherError("Too many splats for GPU buffers")]
             ELSE IF checked = "TooManyTiles"
             THEN [keep EXCEPT !.result = OtherError("Tile count exceeds 10-bit tile_id encoding")]
             ELSE IF count = 0
             THEN [keep EXCEPT !.buffer = filled, !.capacity = grown.capacity,
                               !.lw = w, !.lh = h]
             ELSE IF outcome = "Ok"
             THEN [keep EXCEPT !.buffer = write_frame(filled, frame_id + 1, w, h),
                               !.capacity = grown.capacity, !.lw = w, !.lh = h, !.submits = 2]
             ELSE [keep EXCEPT !.result = Result(outcome, IF outcome = "OverflowDeferred"
                                                          THEN NoStage ELSE STAGE_B),
                               !.disabled = should_disable_gpu(outcome),
                               !.buffer = IF wrote
                                          THEN write_frame(filled, frame_id + 1, w, h)
                                          ELSE filled,
                               !.capacity = grown.capacity, !.submits = 2]
       IN /\ render_result' = after.result
          /\ gpu_disabled' = after.disabled
          /\ framebuffer' = after.buffer
          /\ framebuffer_capacity_pixels' = after.capacity
          /\ last_render_width' = after.lw
          /\ last_render_height' = after.lh
          /\ submits' = after.submits
          /\ expected_image' = IF after.result.kind = "Ok"
                               THEN image_of(frame_id + 1, w, h, count) ELSE expected_image
    /\ UNCHANGED splats_uploaded
    /\ SizeUnchanged

SizeNext ==
    \/ \E n \in 0..MaxSplats : UploadSplats(n)
    \/ \E w \in {0, 1, 3, WIDE_SCREEN}, h \in {1, 2}, count \in 0..MaxSplats,
          outcome \in {"Ok", "Timeout", "CommandBufferFailed", "OverflowDeferred"},
          wrote \in BOOLEAN :
         /\ wrote => outcome # "Ok"
         /\ (count = 0 \/ w = 0 \/ w = WIDE_SCREEN) => outcome = "Ok"
         /\ RenderSized(w, h, count, outcome, wrote)

SizeSpec == SizeInit /\ [][SizeNext]_vars

\* C14 as stated: a render call with zero splats at any non-zero screen size, on a
\* usable back-end, succeeds, shows width * height zero pixels and submits nothing.
C14_EmptySceneAnySize ==
    [][(/\ frame_id' = frame_id + 1
        /\ ~gpu_disabled
        /\ splats_uploaded
        /\ splat_count' = 0
        /\ screen_width' > 0
        /\ screen_height' > 0)
       => (/\ render_result'.kind = "Ok"
           /\ framebuffer_slice(framebuffer', last_render_width', last_render_height')
                = [i \in 0..(screen_width' * screen_height' - 1) |-> 0]
           /\ submits' = 0)]_vars

\* C14 (amended): a render call with zero splats at a non-zero screen size of at most
\* 1023 tiles, on a usable back-end, succeeds, shows width * height zero pixels and
\* submits no GPU work.
C14_EmptySceneWithinTileLimit ==
    [][(/\ frame_id' = frame_id + 1
        /\ ~gpu_disabled
        /\ splats_uploaded
        /\ splat_count' = 0
        /\ screen_width' > 0
        /\ screen_height' > 0
        /\ num_tiles(screen_width', screen_height') <= MAX_TILES)
       => (/\ render_result'.kind = "Ok"
           /\ framebuffer_slice(framebuffer', last_render_width', last_render_height')
                = [i \in 0..(screen_width' * screen_height' - 1) |-> 0]
           /\ submits' = 0)]_vars

C14_Witness ==
    /\ frame_id >= 2
    /\ splat_count = 0
    /\ screen_width * screen_height >= 2
    /\ render_result.kind = "Ok"
    /\ submits = 0
    /\ framebuffer_capacity_pixels > screen_width * screen_height
    /\ \E i \in DOMAIN framebuffer : framebuffer[i] # 0
    /\ \A i \in 0..(screen_width * screen_height - 1) : framebuffer[i] = 0

\* C15: whenever the last render call succeeded, framebuffer_slice is exactly the
\* width * height pixels that render had to produce, whatever sizes came before.
C15_SliceIsLastRender ==
    (frame_id > 0 /\ render_result.kind = "Ok") =>
        /\ framebuffer_slice(framebuffer, last_render_width, last_render_height) = expected_image
        /\ Cardinality(DOMAIN framebuffer_slice(framebuffer, last_render_width, last_render_height))
             = screen_width * screen_height

C15_Witness ==
    /\ frame_id = MaxRenders
    /\ render_result.kind = "Ok"
    /\ splat_count > 0
    /\ screen_width * screen_height >= 2
    /\ framebuffer_capacity_pixels > screen_width * screen_height
    /\ \E i \in DOMAIN framebuffer :
         /\ i >= screen_width * screen_height
         /\ framebuffer[i] # 0
    /\ framebuffer_slice(framebuffer, last_render_width, last_render_height) = expected_image

\* C25 as stated: a render call with no splats uploaded, with splat_count above
\* max_splats or with more than 1023 tiles returns an error, one with a zero screen
\* dimension returns Ok, and none of them submits a command buffer or changes a capacity.
C25_PreconditionsEachDecide ==
    [][LET NoGpuWork ==
               /\ submits' = 0
               /\ framebuffer_capacity_pixels' = framebuffer_capacity_pixels
               /\ framebuffer' = framebuffer
               /\ sort_capacity' = sort_capacity
       IN
       frame_id' = frame_id + 1 =>
         /\ (\/ ~splats_uploaded
             \/ splat_count' > max_splats
             \/ num_tiles(screen_width', screen_height') > MAX_TILES)
            => (render_result'.kind \notin {"Ok", "none"} /\ NoGpuWork)
         /\ (screen_width' = 0 \/ screen_height' = 0)
            => (render_result'.kind = "Ok" /\ NoGpuWork)]_vars

\* C25 (amended): render checks its preconditions in order before any GPU work: a
\* disabled back-end returns GpuDisabled; otherwise no splats uploaded is an error;
\* otherwise a zero screen dimension returns Ok; otherwise splat_count above max_splats
\* or more than 1023 tiles is an error; in all of these cases no command buffer is
\* submitted and no buffer capacity changes.
C25_PreconditionsInOrder ==
    [][LET NoGpuWork ==
               /\ submits' = 0
               /\ framebuffer_capacity_pixels' = framebuffer_capacity_pixels
               /\ framebuffer' = framebuffer
               /\ sort_capacity' = sort_capacity
       IN
       frame_id' = frame_id + 1 =>
         LET zero == screen_width' = 0 \/ screen_height' = 0 IN
         /\ gpu_disabled => (render_result'.kind = "GpuDisabled" /\ NoGpuWork)
         /\ (~gpu_disabled /\ ~splats_uploaded)
            => (render_result'.kind = "Other" /\ NoGpuWork)
         /\ (~gpu_disabled /\ splats_uploaded /\ zero)
            => (render_result'.kind = "Ok" /\ NoGpuWork)
         /\ (/\ ~gpu_disabled
             /\ splats_uploaded
             /\ ~zero
             /\ \/ splat_count' > max_splats
                \/ num_tiles(screen_width', screen_height') > MAX_TILES)
            => (render_result'.kind = "Other" /\ NoGpuWork)]_vars

C25_Witness ==
    /\ frame_id >= 2
    /\ ~gpu_disabled
    /\ splats_uploaded
    /\ screen_width = WIDE_SCREEN
    /\ splat_count <= max_splats
    /\ render_result.kind = "Other"
    /\ submits = 0
    /\ framebuffer_capacity_pixels > 1
    /\ \E i \in DOMAIN framebuffer : framebuffer[i] # 0

\* C35: framebuffer_capacity_pixels is at least last_render_width * last_render_height
\* and is the size of the allocated framebuffer, so framebuffer_slice stays inside it,
\* and no step makes framebuffer_capacity_pixels smaller.
C35_SliceWithinFramebuffer ==
    /\ [](/\ framebuffer_capacity_pixels >= last_render_width * last_render_height
          /\ Cardinality(DOMAIN framebuffer) = framebuffer_capacity_pixels
          /\ DOMAIN framebuffer_slice(framebuffer, last_render_width, last_render_height)
                \subseteq DOMAIN framebuffer)
    /\ [][framebuffer_capacity_pixels' >= framebuffer_capacity_pixels]_vars

\* a call for a larger screen failed after the framebuffer was grown for it: the slice
\* still has the smaller size of the last frame that was rendered
C35_Witness ==
    /\ render_result.kind \notin {"Ok", "GpuDisabled"}
    /\ last_render_width * last_render_height > 0
    /\ screen_width * screen_height > last_render_width * last_render_height
    /\ framebuffer_capacity_pixels = screen_width * screen_height

(***************************************************************************)
(* The input thread, its channel, and run_app_loop with the cleanup of     *)
(* main.  drain_input_events takes one message per step, so the reader     *)
(* thread can send while a drain is under way.                             *)
(***************************************************************************)
MaxMessages == 3
MaxInputFrames == 2

\* the key codes that are KeyCode::Char
CharCodes == {"w", "W", "a", "s", "d", " ", "Q"}
KeyEvent(c, k) == [type |-> "Event", code |-> c, kind |-> k]
FocusLost == [type |-> "Event", code |-> "FocusLost", kind |-> "None"]

ReadError == [type |-> "ReadError"]

\* what the reader thread sends: the events it reports, or a read error
InputMessages ==
    {KeyEvent("w", "Press"), KeyEvent("w", "Release"), KeyEvent("W", "Repeat"),
     KeyEvent("a", "Press"), KeyEvent("s", "Press"), KeyEvent("d", "Repeat"),
     KeyEvent(" ", "Press"), FocusLost,
     KeyEvent("Esc", "Press"), KeyEvent("Esc", "Release"), KeyEvent("Q", "Repeat"),
     ReadError}

to_ascii_lowercase(c) == IF c = "Q" THEN "q" ELSE IF c = "W" THEN "w" ELSE c

HeldMovementKeys_default == [forward |-> FALSE, back |-> FALSE, left |-> FALSE, right |-> FALSE]

\* mutant of transition_to_orbit: the held keys are left as they are
transition_to_orbit_keeps_held(state) == [state EXCEPT !.camera_mode = "Orbit"]

transition_to_orbit(state) ==
    [state EXCEPT !.held = HeldMovementKeys_default, !.camera_mode = "Orbit"]

transition_to_free(state) == [state EXCEPT !.camera_mode = "Free"]

\* the first part of the Event::Key arm: the held W, A, S, D flags follow the key
track_held(held_keys, event) ==
    LET pressed == event.kind # "Release"
        lc == to_ascii_lowercase(event.code)
    IN  IF event.code \notin CharCodes THEN held_keys
        ELSE IF lc = "w" THEN [held_keys EXCEPT !.forward = pressed]
        ELSE IF lc = "s" THEN [held_keys EXCEPT !.back = pressed]
        ELSE IF lc = "a" THEN [held_keys EXCEPT !.left = pressed]
        ELSE IF lc = "d" THEN [held_keys EXCEPT !.right = pressed]
        ELSE held_keys

\* handle_input_event on [held, quit_requested, camera_mode]
handle_input_event(state, event) ==
    IF event = FocusLost THEN [state EXCEPT !.held = HeldMovementKeys_default]
    ELSE LET tracked == [state EXCEPT !.held = track_held(state.held, event)]
         IN  IF event.kind \notin {"Press", "Repeat"} THEN tracked
             ELSE IF event.code = "Esc" THEN [tracked EXCEPT !.quit_requested = TRUE]
             ELSE IF event.code = " "
             THEN IF tracked.camera_mode = "Free" THEN transition_to_orbit(tracked)
                  ELSE transition_to_free(tracked)
             ELSE IF to_ascii_lowercase(event.code) = "q"
             THEN [tracked EXCEPT !.quit_requested = TRUE]
             ELSE tracked

\* mutant of recv_index: the newest message is taken
recv_index_newest(queue) == Len(queue)

\* Receiver::try_recv takes the oldest message
recv_index(queue) == 1

remove_at(queue, i) == SubSeq(queue, 1, i - 1) \o SubSeq(queue, i + 1, Len(queue))

\* Receiver::try_recv
try_recv(queue, alive) ==
    IF queue # <<>> THEN [kind |-> "Ok", message |-> queue[recv_index(queue)]]
    ELSE IF alive THEN [kind |-> "Empty"]
    ELSE [kind |-> "Disconnected"]

\* mutant of on_try_recv_error: a disconnected channel ends the drain like an empty one
on_try_recv_error_lenient(err) == "break"

\* drain_input_events, the arms for Err(TryRecvError::...)
on_try_recv_error(err) == IF err = "Empty" THEN "break" ELSE "error"

\* mutant of loop_breaks: the loop goes on to the frame
loop_breaks_never(quit) == FALSE

\* run_app_loop: `if drain_input_events(..)? { break; }`
loop_breaks(quit) == quit

InputInit ==
    /\ MainInit
    /\ caller = "frame_loop"
    /\ backend = "Cpu"
    /\ splat_count = MaxSplats
    /\ SortIdle
    /\ RasterIdle
    /\ PureIdle
    /\ SizeIdle
    /\ input_queue = <<>>
    /\ tx_alive = TRUE
    /\ quit_requested = FALSE
    /\ held = HeldMovementKeys_default
    /\ camera_mode = "Free"
    /\ loop_pc = "drain"
    /\ drain_returned = "none"
    /\ frames_rendered = 0
    /\ raw_mode = TRUE
    /\ run_result = "running"
    /\ cleanup_result = "none"
    /\ sent = <<>>
    /\ received = <<>>

InputUnchanged ==
    UNCHANGED <<caller, splat_count, backend_vars, app_vars, frame_vars, call_vars, hist_vars,
                sort_vars, raster_vars, pure_vars, size_vars>>

\* the reader thread: event::read() returned, the message is sent; after a read error
\* the thread ends and drops the Sender
ReaderSend(message) ==
    /\ tx_alive
    /\ Len(sent) < MaxMessages
    /\ input_queue' = Append(input_queue, message)
    /\ sent' = Append(sent, message)
    /\ tx_alive' = (message.type # "ReadError")
    /\ UNCHANGED <<quit_requested, held, camera_mode, loop_pc, drain_returned, frames_rendered, raw_mode,
                   run_result, cleanup_result, received>>
    /\ InputUnchanged

\* the reader thread dies without a message
ReaderDies ==
    /\ tx_alive
    /\ tx_alive' = FALSE
    /\ UNCHANGED <<input_queue, quit_requested, held, camera_mode, loop_pc, drain_returned, frames_rendered,
                   raw_mode, run_result, cleanup_result, sent, received>>
    /\ InputUnchanged

\* one turn of the loop of drain_input_events, with what run_app_loop does when it returns
DrainStep ==
    /\ loop_pc = "drain"
    /\ LET r == try_recv(input_queue, tx_alive)
           end(value, next) == /\ drain_returned' = value
                               /\ loop_pc' = next
       IN  IF r.kind = "Ok"
           THEN /\ input_queue' = remove_at(input_queue, recv_index(input_queue))
                /\ received' = Append(received, r.message)
                /\ IF r.message.type = "ReadError"
                   THEN /\ end("Err", "exited_err")
                        /\ UNCHANGED <<held, camera_mode, quit_requested>>
                   ELSE LET after == handle_input_event(
                                        [held |-> held, quit_requested |-> quit_requested,
                                         camera_mode |-> camera_mode],
                                        r.message)
                        IN /\ held' = after.held
                           /\ camera_mode' = after.camera_mode
                           /\ quit_requested' = after.quit_requested
                           /\ IF after.quit_requested
                              THEN end("Ok(true)",
                                       IF loop_breaks(TRUE) THEN "exited_ok" ELSE "frame")
                              ELSE UNCHANGED <<drain_returned, loop_pc>>
           ELSE /\ UNCHANGED <<input_queue, received, held, camera_mode, quit_requested>>
                /\ IF on_try_recv_error(r.kind) = "error"
                   THEN end("Err", "exited_err")
                   ELSE IF quit_requested
                   THEN end("Ok(true)", IF loop_breaks(TRUE) THEN "exited_ok" ELSE "frame")
                   ELSE end("Ok(false)", IF loop_breaks(FALSE) THEN "exited_ok" ELSE "frame")
    /\ UNCHANGED <<tx_alive, frames_rendered, raw_mode, run_result, cleanup_result, sent>>
    /\ InputUnchanged

\* the rest of one iteration of run_app_loop: movement, render_frame, pacing
RenderFrame ==
    /\ loop_pc = "frame"
    /\ frames_rendered < MaxInputFrames
    /\ frames_rendered' = frames_rendered + 1
    /\ loop_pc' = "drain"
    /\ drain_returned' = "none"
    /\ UNCHANGED <<input_queue, tx_alive, quit_requested, held, camera_mode, raw_mode, run_result,
                   cleanup_result, sent, received>>
    /\ InputUnchanged

\* terminal::size()? or render_frame(..)? fails
FrameError ==
    /\ loop_pc = "frame"
    /\ loop_pc' = "exited_err"
    /\ UNCHANGED <<input_queue, tx_alive, quit_requested, held, camera_mode, drain_returned, frames_rendered,
                   raw_mode, run_result, cleanup_result, sent, received>>
    /\ InputUnchanged

\* main after run_app_loop: cleanup_terminal runs (and may itself fail before
\* disable_raw_mode), then `run_result?; cleanup_result`
CleanupTerminal(cleanup_ok) ==
    /\ loop_pc \in {"exited_ok", "exited_err"}
    /\ cleanup_result' = (IF cleanup_ok THEN "Ok" ELSE "Err")
    /\ raw_mode' = (IF cleanup_ok THEN FALSE ELSE raw_mode)
    /\ run_result' = (IF loop_pc = "exited_ok" /\ cleanup_ok THEN "Ok" ELSE "Err")
    /\ loop_pc' = "done"
    /\ UNCHANGED <<input_queue, tx_alive, quit_requested, held, camera_mode, drain_returned, frames_rendered,
                   sent, received>>
    /\ InputUnchanged

InputNext ==
    \/ \E message \in InputMessages : ReaderSend(message)
    \/ ReaderDies
    \/ DrainStep
    \/ RenderFrame
    \/ FrameError
    \/ \E cleanup_ok \in BOOLEAN : CleanupTerminal(cleanup_ok)

InputSpec == InputInit /\ [][InputNext]_vars

\* C16: a turn of drain_input_events is always possible (it never waits for the reader
\* thread); the messages are taken and applied in the order they were sent; and when it
\* returns Ok(false) the channel is empty and every message sent has been applied.
C16_DrainFifoNonBlocking ==
    /\ [](loop_pc = "drain" => ENABLED DrainStep)
    /\ [](LET RECURSIVE apply_events(_, _)
              apply_events(events, n) ==
                  IF n = 0 THEN [held |-> HeldMovementKeys_default,
                                 quit_requested |-> FALSE, camera_mode |-> "Free"]
                  ELSE IF events[n].type = "ReadError" THEN apply_events(events, n - 1)
                  ELSE handle_input_event(apply_events(events, n - 1), events[n])
          IN  /\ received \o input_queue = sent
              /\ [held |-> held, quit_requested |-> quit_requested,
                  camera_mode |-> camera_mode]
                    = apply_events(received, Len(received)))
    /\ [][(drain_returned # "Ok(false)" /\ drain_returned' = "Ok(false)")
            => (input_queue' = <<>> /\ received' = sent')]_vars

C16_Witness ==
    /\ drain_returned = "Ok(false)"
    /\ loop_pc = "frame"
    /\ frames_rendered = 1
    /\ Len(received) = MaxMessages
    /\ received[1] # received[2]
    /\ held.forward

\* C17: when drain_input_events meets a ReadError message or a disconnected channel it
\* returns an error and the loop ends; no frame is rendered after that, and when main
\* returns the error the terminal has been cleaned up.
C17_InputErrorIsFatal ==
    [][/\ (/\ loop_pc = "drain"
           /\ \/ (input_queue # <<>> /\ Head(input_queue) = ReadError)
              \/ (input_queue = <<>> /\ ~tx_alive))
          => (drain_returned' = "Err" /\ loop_pc' = "exited_err")
       /\ drain_returned = "Err"
          => (/\ drain_returned' = "Err"
              /\ frames_rendered' = frames_rendered
              /\ loop_pc' \in {"exited_err", "done"})
       /\ (drain_returned = "Err" /\ loop_pc' = "done")
          => (cleanup_result' # "none" /\ run_result' = "Err")
       /\ run_result' = "Err"
          => (cleanup_result' # "none" /\ (cleanup_result' = "Ok" => ~raw_mode'))]_vars

C17_Witness ==
    /\ loop_pc = "done"
    /\ run_result = "Err"
    /\ drain_returned = "Err"
    /\ cleanup_result = "Ok"
    /\ ~raw_mode
    /\ frames_rendered >= 1
    /\ received # <<>>
    /\ received[Len(received)] # ReadError
    /\ ~tx_alive

\* C18: a press or repeat of Esc or Q that is received sets quit_requested; once set it
\* stays set, the drain that received it returns true, the loop exits at once, and no
\* further frame is rendered.
C18_QuitIsSticky ==
    /\ [](LET IsQuitEvent(message) ==
                  /\ message.type = "Event"
                  /\ message.kind \in {"Press", "Repeat"}
                  /\ message.code \in {"Esc", "Q"}
          IN  (\E i \in DOMAIN received : IsQuitEvent(received[i])) => quit_requested)
    /\ [][/\ quit_requested => (quit_requested' /\ frames_rendered' = frames_rendered)
          /\ (~quit_requested /\ quit_requested')
                => (drain_returned' = "Ok(true)" /\ loop_pc' = "exited_ok")
          /\ quit_requested => loop_pc \in {"exited_ok", "done"}]_vars

C18_Witness ==
    /\ quit_requested
    /\ loop_pc = "done"
    /\ run_result = "Ok"
    /\ frames_rendered >= 1
    /\ input_queue # <<>>
    /\ received[Len(received)] = [type |-> "Event", code |-> "Q", kind |-> "Repeat"]

\* C30: after the events received so far, each of the held flags of W, S, A and D is
\* set exactly when the last event of its key (in either case of the letter) since the
\* last FocusLost or switch from free to orbit mode was a press or a repeat and not a
\* release.  A press or repeat of Space toggles the camera mode, which starts as Free.
C30_HeldFollowsLastKeyEvent ==
    LET events == received
        IsKeyFor(message, key) ==
            /\ message.type = "Event"
            /\ message.code \in CharCodes
            /\ to_ascii_lowercase(message.code) = key
        RECURSIVE mode_after(_)
        mode_after(n) ==
            IF n = 0 THEN "Free"
            ELSE LET toggles == /\ events[n].type = "Event"
                                /\ events[n].code = " "
                                /\ events[n].kind \in {"Press", "Repeat"}
                 IN  IF ~toggles THEN mode_after(n - 1)
                     ELSE IF mode_after(n - 1) = "Free" THEN "Orbit" ELSE "Free"
        clears == {i \in 1..Len(events) :
                     \/ events[i] = FocusLost
                     \/ (mode_after(i - 1) = "Free" /\ mode_after(i) = "Orbit")}
        last_press_stands(key) ==
            LET since == {i \in 1..Len(events) :
                            IsKeyFor(events[i], key) /\ \A j \in clears : j < i}
            IN  /\ since # {}
                /\ events[CHOOSE i \in since : \A j \in since : j <= i].kind # "Release"
    IN  /\ held.forward <=> last_press_stands("w")
        /\ held.back <=> last_press_stands("s")
        /\ held.left <=> last_press_stands("a")
        /\ held.right <=> last_press_stands("d")

\* W was pressed, the switch to orbit mode cleared it, then A was pressed
C30_Witness ==
    /\ received = <<KeyEvent("w", "Press"), KeyEvent(" ", "Press"), KeyEvent("a", "Press")>>
    /\ camera_mode = "Orbit"
    /\ ~held.forward
    /\ held.left

\* C37: when main has returned after raw mode was enabled, raw mode is disabled and the
\* alternate screen is left, whether the loop quit or failed and whether cleanup_terminal
\* returned Ok or an error.
C37_TerminalRestoredOnExit ==
    loop_pc = "done" => ~raw_mode

====
